---- MODULE Spec2Model ----
(***************************************************************************)
(* Chess Tic-Tac-Toe (4x4): the rules engine (gameLogic.ts), the state     *)
(* transition executeMove / resetGame of App.tsx and the values of         *)
(* constants.tsx / types.ts, as a state machine.                           *)
(*                                                                         *)
(* Representation.  A Piece is a record [type, color, id]; the JavaScript  *)
(* null of an empty square is the record `null` (all fields "null"), so    *)
(* that p?.color === c reads p.color = c.  A Position is [r, c]; the       *)
(* undefined `from` of a placement is NoPos.  A null winningLine is <<>>.  *)
(* Date.now() is the logical clock Len(history).  statusMessage, sounds    *)
(* and logicFeedback are presentation and are left out.                    *)
(***************************************************************************)
EXTENDS Integers, Sequences, FiniteSets, TLC

VARIABLES gameState, screen, fnCall, fnResult,
          selectedPiece, myColor, isAiThinking, cpuRuns, remote, net

vars == <<gameState, screen, fnCall, fnResult,
          selectedPiece, myColor, isAiThinking, cpuRuns, remote, net>>

\* The CPU opponent's run and the peer: left alone by every step that does
\* not involve them.
cpuVars == <<isAiThinking, cpuRuns>>

peerVars == <<remote, net>>

\* What a call of a pure function leaves alone besides the game.
appVars == <<selectedPiece, myColor, isAiThinking, cpuRuns, remote, net>>

(***************************************************************************)
(* constants.tsx, types.ts                                                 *)
(***************************************************************************)
GRID_SIZE == 4

PAWN == "P"
ROOK == "R"
KNIGHT == "N"
BISHOP == "B"

PieceType == {PAWN, ROOK, KNIGHT, BISHOP}

Color == {"white", "black"}

INITIAL_HAND == <<PAWN, ROOK, KNIGHT, BISHOP>>

null == [type |-> "null", color |-> "null", id |-> "null"]

NoPos == [r |-> -1, c |-> -1]

Coord == 0 .. (GRID_SIZE - 1)

Position == [r : Coord, c : Coord]

Pos(r, c) == [r |-> r, c |-> c]

Opponent(player) == IF player = "white" THEN "black" ELSE "white"

\* Squares in the order of the nested loops `for r ... for c ...`.
SquareSeq == [i \in 1 .. (GRID_SIZE * GRID_SIZE) |->
                Pos((i - 1) \div GRID_SIZE, (i - 1) % GRID_SIZE)]

Abs(n) == IF n < 0 THEN -n ELSE n

Range(s) == {s[i] : i \in DOMAIN s}

\* The moves pushed by a loop whose iterations push the sequences ss[i].
RECURSIVE Concat(_)
Concat(ss) == IF ss = <<>> THEN <<>> ELSE Head(ss) \o Concat(Tail(ss))

(***************************************************************************)
(* gameLogic.ts                                                            *)
(***************************************************************************)
createEmptyBoard == [r \in Coord |-> [c \in Coord |-> null]]

isPosEqual(p1, p2) == p1.r = p2.r /\ p1.c = p2.c

\* Array.prototype.join on the kinds of a hand.
RECURSIVE Join(_, _)
Join(s, sep) ==
  IF s = <<>> THEN ""
  ELSE IF Len(s) = 1 THEN s[1]
  ELSE (s[1] \o sep) \o Join(Tail(s), sep)

\* Default Array.prototype.sort on the one-letter kinds: code unit order.
KindRank(k) == CASE k = BISHOP -> 1 [] k = KNIGHT -> 2 [] k = PAWN -> 3 [] k = ROOK -> 4

RECURSIVE InsertSorted(_, _)
InsertSorted(k, s) ==
  IF s = <<>> THEN <<k>>
  ELSE IF KindRank(k) <= KindRank(Head(s)) THEN <<k>> \o s
  ELSE <<Head(s)>> \o InsertSorted(k, Tail(s))

\* Mutant: the hands are encoded in the order they are held.
SortHand_Unsorted(s) == s

RECURSIVE SortHand(_)
SortHand(s) == IF s = <<>> THEN <<>> ELSE InsertSorted(Head(s), SortHand(Tail(s)))

\* The key is the template string `${boardStr}|${handW}|${handB}|${currentPlayer}|${pawnDir}`,
\* kept as the tuple of the five fields that "|" separates, and boardStr as
\* the sequence of the sixteen entries that "," separates (no entry and no
\* field contains a separator).
serializeState(board, hands, currentPlayer, pawnDirections) ==
  LET cell(pos) == LET p == board[pos.r][pos.c]
                   IN  IF p # null THEN p.color \o p.type ELSE "-"
      boardStr == [i \in DOMAIN SquareSeq |-> cell(SquareSeq[i])]
      handW == Join(SortHand(hands.white), "")
      handB == Join(SortHand(hands.black), "")
      pawnDir == (ToString(pawnDirections.white) \o ",") \o ToString(pawnDirections.black)
  IN  <<boardStr, handW, handB, currentPlayer, pawnDir>>

\* The string the template yields from its fields.
KeyString(key) ==
  Join(<<Join(key[1], ","), key[2], key[3], key[4], key[5]>>, "|")

Verdict(valid, message) == [valid |-> valid, message |-> message]

\* Mutant: the path is never inspected.
PathCheck_NoLook(board, r, c, to, rStep, cStep) == Verdict(TRUE, "")

\* The `while (currR !== to.r || currC !== to.c)` loop of the Rook and the
\* Bishop.  board[r] is undefined for a row outside the grid, and reading a
\* column of it throws a TypeError; board[r][c] is undefined (falsy) for a
\* column outside the grid.
RECURSIVE PathCheck(_, _, _, _, _, _)
PathCheck(board, r, c, to, rStep, cStep) ==
  IF r = to.r /\ c = to.c THEN Verdict(TRUE, "")
  ELSE IF r \notin Coord THEN Verdict(FALSE, "TypeError")
  ELSE IF c \in Coord /\ board[r][c] # null THEN Verdict(FALSE, "The path is blocked.")
  ELSE PathCheck(board, r + rStep, c + cStep, to, rStep, cStep)

\* Mutant: the friendly-fire test is dropped.
IsOwnPiece_Never(targetPiece, piece) == FALSE

\* `targetPiece && targetPiece.color === piece.color`
IsOwnPiece(targetPiece, piece) == targetPiece # null /\ targetPiece.color = piece.color

\* Mutant: no knight move is accepted.
IsKnightJump_Never(absDr, absDc) == FALSE

\* Mutant: only one of the two L-shapes is accepted.
IsKnightJump_OneShape(absDr, absDc) == absDr = 2 /\ absDc = 1

\* `(absDr === 2 && absDc === 1) || (absDr === 1 && absDc === 2)`
IsKnightJump(absDr, absDc) == (absDr = 2 /\ absDc = 1) \/ (absDr = 1 /\ absDc = 2)

\* Mutant: pawns keep the direction they start with.
PawnDirOf_Fixed(pawnDirections, piece) == IF piece.color = "white" THEN -1 ELSE 1

\* `piece.color === 'white' ? pawnDirections.white : pawnDirections.black`
PawnDirOf(pawnDirections, piece) ==
  IF piece.color = "white" THEN pawnDirections.white ELSE pawnDirections.black

isValidMove(state, piece, from, to) ==
  LET board == state.board
      pawnDirections == state.pawnDirections
      dr == to.r - from.r
      dc == to.c - from.c
      absDr == Abs(dr)
      absDc == Abs(dc)
  IN
  IF to.r < 0 \/ to.r >= GRID_SIZE \/ to.c < 0 \/ to.c >= GRID_SIZE
  THEN Verdict(FALSE, "Move is out of bounds.")
  ELSE
  LET targetPiece == board[to.r][to.c] IN
  IF IsOwnPiece(targetPiece, piece)
  THEN Verdict(FALSE, "You cannot capture your own piece.")
  ELSE
  CASE piece.type = ROOK ->
         IF dr # 0 /\ dc # 0 THEN Verdict(FALSE, "Rooks move straight.")
         ELSE LET rStep == IF dr = 0 THEN 0 ELSE IF dr > 0 THEN 1 ELSE -1
                  cStep == IF dc = 0 THEN 0 ELSE IF dc > 0 THEN 1 ELSE -1
              IN  PathCheck(board, from.r + rStep, from.c + cStep, to, rStep, cStep)
    [] piece.type = BISHOP ->
         IF absDr # absDc THEN Verdict(FALSE, "Bishops move diagonally.")
         ELSE LET brStep == IF dr > 0 THEN 1 ELSE -1
                  bcStep == IF dc > 0 THEN 1 ELSE -1
              IN  PathCheck(board, from.r + brStep, from.c + bcStep, to, brStep, bcStep)
    [] piece.type = KNIGHT ->
         IF ~IsKnightJump(absDr, absDc)
         THEN Verdict(FALSE, "Knights move in an L-shape.")
         ELSE Verdict(TRUE, "")
    [] piece.type = PAWN ->
         LET dir == PawnDirOf(pawnDirections, piece)
         IN  IF dc = 0 /\ dr = dir
             THEN IF targetPiece # null
                  THEN Verdict(FALSE, "Pawns can only move forward into empty squares.")
                  ELSE Verdict(TRUE, "")
             ELSE IF absDc = 1 /\ dr = dir
             THEN IF targetPiece = null \/ targetPiece.color = piece.color
                  THEN Verdict(FALSE, "Pawns can only capture diagonally.")
                  ELSE Verdict(TRUE, "")
             ELSE Verdict(FALSE, "Invalid pawn movement.")
    [] OTHER -> Verdict(FALSE, "Unknown piece type.")

\* The candidate lines in the order checkWin pushes them: rows, columns,
\* the diagonal, the anti-diagonal.
WinLines ==
  [i \in 1 .. (2 * GRID_SIZE + 2) |->
     IF i <= GRID_SIZE
     THEN [j \in 1 .. GRID_SIZE |-> Pos(i - 1, j - 1)]
     ELSE IF i <= 2 * GRID_SIZE
     THEN [j \in 1 .. GRID_SIZE |-> Pos(j - 1, i - GRID_SIZE - 1)]
     ELSE IF i = 2 * GRID_SIZE + 1
     THEN [j \in 1 .. GRID_SIZE |-> Pos(j - 1, j - 1)]
     ELSE [j \in 1 .. GRID_SIZE |-> Pos(j - 1, GRID_SIZE - j)]]

\* Mutant: no line is ever found complete.
LineOwned_Never(board, line, color) == FALSE

\* Mutant: the last square of a line is not inspected.
LineOwned_ThreeOfFour(board, line, color) ==
  \A j \in 1 .. (Len(line) - 1) : board[line[j].r][line[j].c].color = color

LineOwned(board, line, color) ==
  \A j \in DOMAIN line : board[line[j].r][line[j].c].color = color

\* Mutant: the last complete line is returned.
checkWin_LastLine(board, color) ==
  LET hits == {i \in DOMAIN WinLines : LineOwned(board, WinLines[i], color)}
  IN  IF hits = {} THEN <<>>
      ELSE WinLines[CHOOSE i \in hits : \A k \in hits : i >= k]

\* Returns the first complete line, or <<>> for null.
checkWin(board, color) ==
  LET hits == {i \in DOMAIN WinLines : LineOwned(board, WinLines[i], color)}
  IN  IF hits = {} THEN <<>>
      ELSE WinLines[CHOOSE i \in hits : \A k \in hits : i <= k]

Move(type, pieceType, from, to, captured, pieceId) ==
  [type |-> type, pieceType |-> pieceType, from |-> from, to |-> to,
   captured |-> captured, pieceId |-> pieceId]

\* Mutant: the hand is not de-duplicated.
Unique_Identity(s) == s

\* Array.from(new Set(hand)): the distinct kinds in order of first occurrence.
RECURSIVE Unique(_)
Unique(s) ==
  IF s = <<>> THEN <<>>
  ELSE LET k == s[Len(s)]
           front == Unique(SubSeq(s, 1, Len(s) - 1))
       IN  IF \E i \in DOMAIN front : front[i] = k THEN front ELSE Append(front, k)

getLegalMoves(state, color) ==
  LET board == state.board
      colorHand == state.hands[color]
      uniqueHandPieces == Unique(colorHand)
      placeAt(pieceType, pos) ==
        IF board[pos.r][pos.c] = null
        THEN <<Move("place", pieceType, NoPos, pos, null, "")>> ELSE <<>>
      placeKind(pieceType) ==
        Concat([i \in DOMAIN SquareSeq |-> placeAt(pieceType, SquareSeq[i])])
      moveTo(from, to) ==
        LET piece == board[from.r][from.c] IN
        IF isPosEqual(from, to) THEN <<>>
        ELSE IF isValidMove(state, piece, from, to).valid
        THEN <<Move("move", piece.type, from, to, board[to.r][to.c], "")>>
        ELSE <<>>
      moveFrom(from) ==
        LET piece == board[from.r][from.c] IN
        IF piece # null /\ piece.color = color
        THEN Concat([i \in DOMAIN SquareSeq |-> moveTo(from, SquareSeq[i])])
        ELSE <<>>
  IN  Concat([i \in DOMAIN uniqueHandPieces |-> placeKind(uniqueHandPieces[i])])
      \o Concat([i \in DOMAIN SquareSeq |-> moveFrom(SquareSeq[i])])

(***************************************************************************)
(* App.tsx: the game state and its two writers, resetGame and executeMove  *)
(***************************************************************************)
GameMode == {"ai", "local", "online"}

Difficulty == {"easy", "medium", "hard"}

\* The useState initialiser of App: the state before any game is started.
ConstructedState ==
  [board |-> createEmptyBoard,
   hands |-> [white |-> INITIAL_HAND, black |-> INITIAL_HAND],
   pawnDirections |-> [white |-> -1, black |-> 1],
   currentPlayer |-> "white",
   winner |-> "null",
   winningLine |-> <<>>,
   history |-> <<>>,
   gameMode |-> "ai",
   difficulty |-> "medium",
   positionCounts |-> <<>>]

\* Mutant: the starting configuration is not counted.
resetGame_NoSeed(mode, difficulty, firstPlayer) ==
  [ConstructedState EXCEPT !.currentPlayer = firstPlayer, !.gameMode = mode,
                           !.difficulty = difficulty]

resetGame(mode, difficulty, firstPlayer) ==
  LET emptyBoard == createEmptyBoard
      initialHands == [white |-> INITIAL_HAND, black |-> INITIAL_HAND]
      initialPawnDirs == [white |-> -1, black |-> 1]
      initialHash == serializeState(emptyBoard, initialHands, firstPlayer, initialPawnDirs)
  IN  [board |-> emptyBoard,
       hands |-> initialHands,
       pawnDirections |-> initialPawnDirs,
       currentPlayer |-> firstPlayer,
       winner |-> "null",
       winningLine |-> <<>>,
       history |-> <<>>,
       gameMode |-> mode,
       difficulty |-> difficulty,
       positionCounts |-> (initialHash :> 1)]

\* Array.prototype.indexOf, 1-based; 0 stands for -1.
IndexOf(s, x) ==
  IF \E i \in DOMAIN s : s[i] = x
  THEN CHOOSE i \in DOMAIN s : s[i] = x /\ \A j \in 1 .. (i - 1) : s[j] # x
  ELSE 0

\* splice(idx, 1)
RemoveAt(s, idx) == SubSeq(s, 1, idx - 1) \o SubSeq(s, idx + 1, Len(s))

\* Date.now() as a logical clock: the number of moves applied so far.
Now(prev) == Len(prev.history)

PieceId(prev, move, player) ==
  IF move.pieceId # "" THEN move.pieceId
  ELSE ((player \o "-") \o (move.pieceType \o "-")) \o ToString(Now(prev))

\* `(newPositionCounts[hash] || 0) + 1`
BumpCount(counts, hash) ==
  [k \in (DOMAIN counts) \cup {hash} |->
     IF k = hash THEN (IF hash \in DOMAIN counts THEN counts[hash] ELSE 0) + 1
     ELSE counts[k]]

\* Mutant: no repetition ends the game.
IsRepetitionDraw_Never(count) == FALSE

\* Mutant: the second occurrence already draws.
IsRepetitionDraw_Second(count) == count >= 2

\* The repetition threshold of `if (newPositionCounts[hash] >= 3)`.
IsRepetitionDraw(count) == count >= 3

\* Mutant: a pawn on an edge row does not turn its color round.
FlipPawnDirs_Never(dirs, activePiece, player, to) == dirs

\* The pawn-direction update of executeMove.
FlipPawnDirs(dirs, activePiece, player, to) ==
  IF activePiece.type = PAWN
  THEN LET d1 == IF to.r = 0 THEN [dirs EXCEPT ![player] = 1] ELSE dirs
       IN  IF to.r = GRID_SIZE - 1 THEN [d1 EXCEPT ![player] = -1] ELSE d1
  ELSE dirs

\* Mutant: the captured kind goes to the capturer.
CaptureInto_Capturer(hands, opponent, targetCell) ==
  IF targetCell # null
  THEN [hands EXCEPT ![Opponent(opponent)] = Append(@, targetCell.type)]
  ELSE hands

\* Mutant: the captured kind is lost.
CaptureInto_Lost(hands, opponent, targetCell) == hands

\* The hand that receives the kind of a captured piece.
CaptureInto(hands, opponent, targetCell) ==
  IF targetCell # null
  THEN [hands EXCEPT ![opponent] = Append(@, targetCell.type)]
  ELSE hands

\* Mutant: a finished game still accepts moves.
GameOver_Never(prev) == FALSE

\* `if (prev.winner) return prev;`
GameOver(prev) == prev.winner # "null"

\* Mutant: a placement of a kind that is not in the hand goes ahead.
MissingFromHand_Ignored(handIdx) == FALSE

\* `if (handIdx === -1) return prev;`
MissingFromHand(handIdx) == handIdx = 0

\* Mutant: the turn passes to the opponent after a winning move as well.
NextPlayer_AlwaysOpponent(lineWinner, player, opponent) == opponent

\* `const nextPlayer = winner ? player : opponent;`
NextPlayer(lineWinner, player, opponent) ==
  IF lineWinner # "null" THEN player ELSE opponent

\* The updater executeMove passes to setGameState: prev -> next state.
executeMove(prev, move) ==
  IF GameOver(prev) THEN prev
  ELSE
  LET player == prev.currentPlayer
      opponent == Opponent(player)
      isPlace == move.type = "place"
      handIdx == IndexOf(prev.hands[player], move.pieceType)
      fromPiece == IF isPlace THEN null ELSE prev.board[move.from.r][move.from.c]
  IN
  IF isPlace /\ MissingFromHand(handIdx) THEN prev
  ELSE IF ~isPlace /\ fromPiece = null THEN prev
  ELSE
  LET hands1 == IF isPlace
                THEN [prev.hands EXCEPT ![player] = RemoveAt(@, handIdx)]
                ELSE prev.hands
      board1 == IF isPlace THEN prev.board
                ELSE [prev.board EXCEPT ![move.from.r][move.from.c] = null]
      activePiece == IF isPlace
                     THEN [type |-> move.pieceType, color |-> player,
                           id |-> PieceId(prev, move, player)]
                     ELSE fromPiece
      targetCell == board1[move.to.r][move.to.c]
      newHands == CaptureInto(hands1, opponent, targetCell)
      newBoard == [board1 EXCEPT ![move.to.r][move.to.c] = activePiece]
      newPawnDirs == FlipPawnDirs(prev.pawnDirections, activePiece, player, move.to)
      winningLine == checkWin(newBoard, player)
      lineWinner == IF winningLine # <<>> THEN player ELSE "null"
      nextPlayer == NextPlayer(lineWinner, player, opponent)
      hash == serializeState(newBoard, newHands, nextPlayer, newPawnDirs)
      newPositionCounts == IF lineWinner = "null"
                           THEN BumpCount(prev.positionCounts, hash)
                           ELSE prev.positionCounts
      winner == IF lineWinner = "null" /\ IsRepetitionDraw(newPositionCounts[hash])
                THEN "draw" ELSE lineWinner
  IN  [prev EXCEPT !.board = newBoard,
                   !.hands = newHands,
                   !.pawnDirections = newPawnDirs,
                   !.currentPlayer = nextPlayer,
                   !.winner = winner,
                   !.winningLine = winningLine,
                   !.history = Append(prev.history, move),
                   !.positionCounts = newPositionCounts]

(***************************************************************************)
(* cpuOpponent.ts                                                          *)
(***************************************************************************)
SCORES ==
  [WIN |-> 100000, THREE_IN_ROW |-> 1000, TWO_IN_ROW |-> 100, CENTER |-> 80,
   PIECE_ON_BOARD |-> 50, PIECE_IN_HAND |-> 30]

CENTER_SQUARES == <<Pos(1, 1), Pos(1, 2), Pos(2, 1), Pos(2, 2)>>

\* Infinity and -Infinity only take part in comparisons with scores, all of
\* which lie strictly between -Infinity and Infinity.
Infinity == 1000000000

Max(a, b) == IF a >= b THEN a ELSE b

Min(a, b) == IF a <= b THEN a ELSE b

RECURSIVE Sum(_)
Sum(s) == IF s = <<>> THEN 0 ELSE Head(s) + Sum(Tail(s))

\* getLines(), and the `lines` of evaluateBoard: row i and column i in
\* turn, then the diagonal and the anti-diagonal.
getLines ==
  [n \in 1 .. (2 * GRID_SIZE + 2) |->
     IF n <= 2 * GRID_SIZE
     THEN LET i == (n - 1) \div 2
          IN  IF n % 2 = 1
              THEN [j \in 1 .. GRID_SIZE |-> Pos(i, j - 1)]
              ELSE [j \in 1 .. GRID_SIZE |-> Pos(j - 1, i)]
     ELSE IF n = 2 * GRID_SIZE + 1
     THEN [j \in 1 .. GRID_SIZE |-> Pos(j - 1, j - 1)]
     ELSE [j \in 1 .. GRID_SIZE |-> Pos(j - 1, GRID_SIZE - j)]]

\* How many squares of `line` hold a piece of `color`.
CountOn(board, line, color) ==
  Cardinality({j \in DOMAIN line : board[line[j].r][line[j].c].color = color})

\* Mutant: a line of the opponent is not looked for.
evaluateBoard_NoLossCheck(board, hands, aiColor) ==
  IF checkWin(board, aiColor) # <<>> THEN SCORES.WIN
  ELSE Len(hands[aiColor]) * SCORES.PIECE_IN_HAND
       - Len(hands[Opponent(aiColor)]) * SCORES.PIECE_IN_HAND

evaluateBoard(board, hands, aiColor) ==
  LET opponent == Opponent(aiColor)
      lines == getLines
      lineScore(line) ==
        LET mine == CountOn(board, line, aiColor)
            theirs == CountOn(board, line, opponent)
        IN  (IF theirs = 0
             THEN IF mine = 3 THEN SCORES.THREE_IN_ROW
                  ELSE IF mine = 2 THEN SCORES.TWO_IN_ROW ELSE 0
             ELSE 0)
            - (IF mine = 0
               THEN IF theirs = 3 THEN (SCORES.THREE_IN_ROW * 3) \div 2
                    ELSE IF theirs = 2 THEN SCORES.TWO_IN_ROW ELSE 0
               ELSE 0)
      squareScore(pos) ==
        LET p == board[pos.r][pos.c]
            val == SCORES.PIECE_ON_BOARD
                   + (IF \E i \in DOMAIN CENTER_SQUARES : CENTER_SQUARES[i] = pos
                      THEN SCORES.CENTER ELSE 0)
        IN  IF p = null THEN 0 ELSE IF p.color = aiColor THEN val ELSE -val
  IN  IF checkWin(board, aiColor) # <<>> THEN SCORES.WIN
      ELSE IF checkWin(board, opponent) # <<>> THEN -SCORES.WIN
      ELSE Sum([n \in DOMAIN lines |-> lineScore(lines[n])])
           + Sum([i \in DOMAIN SquareSeq |-> squareScore(SquareSeq[i])])
           + Len(hands[aiColor]) * SCORES.PIECE_IN_HAND
           - Len(hands[opponent]) * SCORES.PIECE_IN_HAND

simulateMove(state, move) ==
  LET player == state.currentPlayer
      opponent == Opponent(player)
  IN  IF move.type = "place"
      THEN LET idx == IndexOf(state.hands[player], move.pieceType)
               newHands == IF idx # 0
                           THEN [state.hands EXCEPT ![player] = RemoveAt(@, idx)]
                           ELSE state.hands
               newBoard == [state.board EXCEPT ![move.to.r][move.to.c] =
                              [type |-> move.pieceType, color |-> player, id |-> "sim"]]
           IN  [state EXCEPT !.board = newBoard, !.hands = newHands,
                                  !.currentPlayer = opponent]
      ELSE LET p == state.board[move.from.r][move.from.c]
               board1 == [state.board EXCEPT ![move.from.r][move.from.c] = null]
               target == board1[move.to.r][move.to.c]
               newHands == IF target # null
                           THEN [state.hands EXCEPT ![opponent] = Append(@, target.type)]
                           ELSE state.hands
               newBoard == [board1 EXCEPT ![move.to.r][move.to.c] = p]
           IN  [state EXCEPT !.board = newBoard, !.hands = newHands,
                                  !.currentPlayer = opponent]

\* The loop of the maximizing branch from move i on.
RECURSIVE minimax(_, _, _, _, _, _)
RECURSIVE MaxLoop(_, _, _, _, _, _, _, _)
RECURSIVE MinLoop(_, _, _, _, _, _, _, _)
MaxLoop(state, moves, i, depth, alpha, beta, maxEval, aiColor) ==
  IF i > Len(moves) THEN maxEval
  ELSE LET evalScore == minimax(simulateMove(state, moves[i]), depth - 1,
                                alpha, beta, FALSE, aiColor)
           newMax == Max(maxEval, evalScore)
           newAlpha == Max(alpha, evalScore)
       IN  IF beta <= newAlpha THEN newMax
           ELSE MaxLoop(state, moves, i + 1, depth, newAlpha, beta, newMax, aiColor)

\* The loop of the minimizing branch from move i on.
MinLoop(state, moves, i, depth, alpha, beta, minEval, aiColor) ==
  IF i > Len(moves) THEN minEval
  ELSE LET evalScore == minimax(simulateMove(state, moves[i]), depth - 1,
                                alpha, beta, TRUE, aiColor)
           newMin == Min(minEval, evalScore)
           newBeta == Min(beta, evalScore)
       IN  IF newBeta <= alpha THEN newMin
           ELSE MinLoop(state, moves, i + 1, depth, alpha, newBeta, newMin, aiColor)

minimax(state, depth, alpha, beta, isMaximizing, aiColor) ==
  IF \/ depth = 0
     \/ checkWin(state.board, "white") # <<>>
     \/ checkWin(state.board, "black") # <<>>
  THEN evaluateBoard(state.board, state.hands, aiColor)
  ELSE LET moves == getLegalMoves(state, state.currentPlayer)
       IN  IF moves = <<>> THEN 0
           ELSE IF isMaximizing
           THEN MaxLoop(state, moves, 1, depth, alpha, beta, -Infinity, aiColor)
           ELSE MinLoop(state, moves, 1, depth, alpha, beta, Infinity, aiColor)

\* The depth of the search below each root move of Hard.
SearchDepth == 3

\* The null that getCpuMove returns when there is no legal move.
NoMove == [type |-> "null"]

\* Mutant: the search below a root move starts with alpha = 0.
HardValue_AlphaZero(state, move) ==
  minimax(simulateMove(state, move), SearchDepth, 0, Infinity, FALSE,
          state.currentPlayer)

\* minimax(simulateMove(gameState, move), 3, -Infinity, Infinity, false, player)
HardValue(state, move) ==
  minimax(simulateMove(state, move), SearchDepth, -Infinity, Infinity, FALSE,
          state.currentPlayer)

\* The loop of Hard over the root moves from move i on.
RECURSIVE HardLoop(_, _, _, _, _)
HardLoop(state, moves, i, bestMove, bestValue) ==
  IF i > Len(moves) THEN bestMove
  ELSE LET boardValue == HardValue(state, moves[i])
       IN  IF boardValue > bestValue
           THEN HardLoop(state, moves, i + 1, moves[i], boardValue)
           ELSE HardLoop(state, moves, i + 1, bestMove, bestValue)

\* The first element of a non-empty set of indices.
First(indices) == CHOOSE i \in indices : \A k \in indices : i <= k

\* Mutant: Medium does not look for a win.
WinningIndices_None(state, moves) == {}

\* Medium, "1. Win": the indices of the moves after which the mover owns a line.
WinningIndices(state, moves) ==
  {i \in DOMAIN moves :
     checkWin(simulateMove(state, moves[i]).board, state.currentPlayer) # <<>>}

\* Mutant: Medium sees no threat.
BlockingIndex_None(state, moves, line) == 0

\* Medium, the threat scan: per line of getLines with three pieces of the
\* opponent and an empty square, the index of the first move landing on that
\* square (0 when the line is no threat or no move lands there).
BlockingIndex(state, moves, line) ==
  LET opponent == Opponent(state.currentPlayer)
      empties == {j \in DOMAIN line : state.board[line[j].r][line[j].c] = null}
      emptyPos == line[CHOOSE j \in empties : \A k \in empties : j >= k]
      landing == {i \in DOMAIN moves : moves[i].to.r = emptyPos.r /\ moves[i].to.c = emptyPos.c}
  IN  IF CountOn(state.board, line, opponent) = 3 /\ empties # {} /\ landing # {}
      THEN First(landing) ELSE 0

\* Math.floor(Math.random() * moves.length): any index of moves.
RandomIndices(moves) == DOMAIN moves

\* Mutant: any capture is taken.
CapturePick_Any(captures) == captures

\* captureMoves[0]
CapturePick(captures) == {First(captures)}

\* Mutant: the move returned has lost its origin.
Returned_NoOrigin(move) == [move EXCEPT !.from = NoPos]

\* `{ ...move, logicFeedback }`, the feedback text left out.
Returned(move) == move

\* The moves getCpuMove may return for `state` (one move, unless it is left
\* to Math.random); {NoMove} for null.
getCpuMove(state) ==
  LET moves == getLegalMoves(state, state.currentPlayer)
      player == state.currentPlayer
  IN
  IF moves = <<>> THEN {NoMove}
  ELSE IF state.difficulty = "easy" THEN {Returned(moves[i]) : i \in RandomIndices(moves)}
  ELSE IF state.difficulty = "medium"
  THEN LET wins == WinningIndices(state, moves)
           lines == getLines
           threats == {n \in DOMAIN lines : BlockingIndex(state, moves, lines[n]) # 0}
           captures == {i \in DOMAIN moves :
                          /\ moves[i].type = "move"
                          /\ state.board[moves[i].to.r][moves[i].to.c] # null}
       IN  IF wins # {} THEN {Returned(moves[First(wins)])}
           ELSE IF threats # {}
           THEN {Returned(moves[BlockingIndex(state, moves, lines[First(threats)])])}
           ELSE IF captures # {} THEN {Returned(moves[i]) : i \in CapturePick(captures)}
           ELSE {Returned(moves[i]) : i \in RandomIndices(moves)}
  ELSE {Returned(HardLoop(state, moves, 1, moves[1], -Infinity))}

\* Mutant: newBoard shares its rows with the board of the state passed in.
SharedWithGiven_Rows == {"board"}

\* The arrays of the state passed to simulateMove that newBoard and newHands
\* share with it: none, `board.map(row => [...row])` and `[...hands.white]`,
\* `[...hands.black]` are fresh arrays.
SharedWithGiven == {}

\* The state passed to simulateMove as the call leaves it: simulateMove
\* writes into newBoard and newHands only.
GivenAfterSimulateMove(state, move) ==
  LET sim == simulateMove(state, move)
  IN  [state EXCEPT !.board = IF "board" \in SharedWithGiven THEN sim.board ELSE @,
                    !.hands = IF "hands" \in SharedWithGiven THEN sim.hands ELSE @]

\* The moves that getCpuMove passes to simulateMove together with the state
\* it was given, in order: Medium's two loops (the first up to the winning
\* move it returns), Hard's loop over the root moves.
SimulatedOnGiven(state) ==
  LET moves == getLegalMoves(state, state.currentPlayer)
      wins == WinningIndices(state, moves)
  IN  IF state.difficulty = "easy" THEN <<>>
      ELSE IF state.difficulty = "medium"
      THEN IF wins # {} THEN SubSeq(moves, 1, First(wins)) ELSE moves \o moves
      ELSE moves

\* The state given to getCpuMove as the calls of simulateMove on the moves
\* simulated[lo], ..., simulated[hi] leave it (the calls are made in order;
\* the range is halved to keep the evaluation shallow).
RECURSIVE GivenAfterCalls(_, _, _, _)
GivenAfterCalls(state, simulated, lo, hi) ==
  IF lo > hi THEN state
  ELSE IF lo = hi THEN GivenAfterSimulateMove(state, simulated[lo])
  ELSE LET mid == (lo + hi) \div 2
       IN  CHOOSE last \in {GivenAfterCalls(half, simulated, mid + 1, hi) :
                               half \in {GivenAfterCalls(state, simulated, lo, mid)}} : TRUE

\* The state given to getCpuMove as the call leaves it.
GivenAfterGetCpuMove(state) ==
  LET simulated == SimulatedOnGiven(state)
  IN  GivenAfterCalls(state, simulated, 1, Len(simulated))

(***************************************************************************)
(* Bounds of the exploration.  A game follows one of the Openings and is   *)
(* then played freely for at most MaxMoves further applied moves.          *)
(***************************************************************************)
MaxMoves == 1

MaxFnMoves == 0

MaxMenuMoves == 0

\* Hard is asked for a move where the mover has at most this many legal moves.
MaxHardMoves == 7
\* Free legal moves after a scripted game, in legal play.
MaxPlayMoves == 1
\* Free moves after an opening in the games of the app.
MaxAppMoves == 1
\* CPU runs that the model lets be pending at a time.
MaxRuns == 2
\* Applied moves of a game in which the rooks shuttle.
MaxLiveMoves == 27

Place(kind, r, c) == Move("place", kind, NoPos, Pos(r, c), null, "")

Relocate(kind, fr, fc, tr, tc) == Move("move", kind, Pos(fr, fc), Pos(tr, tc), null, "")

\* Three pieces of each color on the two outer rows: White is one placement
\* away from completing row 0, and White's rook attacks Black's bishop.
WinOpening ==
  <<Place(ROOK, 0, 0), Place(BISHOP, 3, 0), Place(KNIGHT, 0, 1), Place(KNIGHT, 3, 1),
    Place(BISHOP, 0, 2), Place(ROOK, 3, 2)>>

\* White passes the win; Black is one placement away from completing row 3.
BlackWinOpening == Append(WinOpening, Place(PAWN, 1, 1))

\* Two rooks shuttling: at the end the configuration reached by the second
\* move has occurred twice, and Black's rook returning to (3,0) repeats it.
DrawOpening ==
  <<Place(ROOK, 0, 0), Place(ROOK, 3, 0),
    Relocate(ROOK, 0, 0, 0, 1), Relocate(ROOK, 3, 0, 3, 1),
    Relocate(ROOK, 0, 1, 0, 0), Relocate(ROOK, 3, 1, 3, 0),
    Relocate(ROOK, 0, 0, 0, 1), Relocate(ROOK, 3, 0, 3, 1),
    Relocate(ROOK, 0, 1, 0, 0)>>

\* A White pawn one step from row 0 with a Black pawn on its capture square.
PawnOpening == <<Place(PAWN, 1, 0), Place(PAWN, 0, 1)>>

\* A move no validator accepts, as an unvalidated sender may pass it: White's
\* rook lands on White's bishop, whose kind goes to Black's hand.
SelfCaptureOpening ==
  <<Place(ROOK, 0, 0), Place(KNIGHT, 2, 2), Place(BISHOP, 0, 1), Place(PAWN, 3, 3),
    Relocate(ROOK, 0, 0, 0, 1)>>

\* White's pawn takes Black's on row 0 and turns round; Black's second pawn
\* reaches row 3 and turns round as well.
PawnFlipOpening ==
  PawnOpening \o
  <<Relocate(PAWN, 1, 0, 0, 1), Place(PAWN, 2, 1),
    Relocate(PAWN, 0, 1, 1, 1), Relocate(PAWN, 2, 1, 3, 1)>>

\* All eight pieces on the board, Black to move.
FullBoardOpening ==
  BlackWinOpening \o <<Place(PAWN, 2, 2), Relocate(ROOK, 0, 0, 1, 0)>>

\* Moves no validator accepts: the first player lands its knight on its own
\* rook, its bishop on that knight and its pawn on that bishop, each time
\* handing the kind to the opponent, and is left with a pawn on row 0 that
\* faces the opponent's rook.  After the opponent's reply it cannot move.
StuckOpening ==
  <<Place(ROOK, 0, 0), Place(ROOK, 1, 0),
    Place(KNIGHT, 0, 1), Place(KNIGHT, 3, 3),
    Relocate(KNIGHT, 0, 1, 0, 0), Place(BISHOP, 3, 2),
    Place(BISHOP, 0, 1), Place(PAWN, 3, 1),
    Relocate(BISHOP, 0, 1, 0, 0), Place(ROOK, 2, 3),
    Place(PAWN, 0, 1), Place(KNIGHT, 2, 2),
    Relocate(PAWN, 0, 1, 0, 0), Place(BISHOP, 1, 3)>>

CpuOpenings == {FullBoardOpening, StuckOpening}

Openings ==
  {<<>>, WinOpening, BlackWinOpening, DrawOpening, PawnOpening, PawnFlipOpening,
   SelfCaptureOpening}

IsPrefix(s, t) == Len(s) <= Len(t) /\ SubSeq(t, 1, Len(s)) = s

\* The applied moves `h` have left the openings by fewer than `budget` moves.
FreePlay(h, budget) == \E o \in Openings : IsPrefix(o, h) /\ Len(h) - Len(o) < budget

\* The next move of every opening of `book` that `h` is following.
BookMovesIn(book, h) == {o[Len(h) + 1] : o \in {x \in book : Len(x) > Len(h) /\ IsPrefix(h, x)}}

BookMoves(h) == BookMovesIn(Openings, h)

\* The moves a caller of executeMove may pass: any placement and any
\* relocation inside the grid (executeMove does not validate).  A relocation
\* names the kind of the piece it moves, as the senders of moves do.
AnyMoves(state) ==
  {Place(k, to.r, to.c) : k \in PieceType, to \in Position}
  \cup {Relocate(IF state.board[from.r][from.c] # null
                 THEN state.board[from.r][from.c].type ELSE PAWN,
                 from.r, from.c, to.r, to.c) : from \in Position, to \in Position}

\* Moves are tried freely within the budget and in every finished game.
MoveInputs(state, budget) ==
  IF FreePlay(state.history, budget) \/ state.winner # "null"
  THEN AnyMoves(state) \cup BookMoves(state.history)
  ELSE BookMoves(state.history)

NoCall == [fn |-> "none"]

\* useState(null) of selectedPiece: `{ type, from? }`, `from` undefined for a
\* kind chosen in the hand.
NoSelection == [type |-> "null", from |-> NoPos]

\* No peer is connected: connRef.current is null and nothing is in flight.
NoPeer == [connected |-> FALSE]

NoNet == [toRemote |-> <<>>, toLocal |-> <<>>]

Init ==
  /\ gameState = ConstructedState
  /\ screen = "menu"
  /\ fnCall = NoCall
  /\ fnResult = <<>>
  /\ selectedPiece = NoSelection
  /\ myColor = "null"
  /\ isAiThinking = FALSE
  /\ cpuRuns = <<>>
  /\ remote = NoPeer
  /\ net = NoNet

\* peer.on('connection') / connection.on('open'): a match is (re)started and
\* the game screen is shown.
ResetGame ==
  /\ fnCall = NoCall
  /\ gameState' = resetGame("online", "medium", "white")
  /\ selectedPiece' = NoSelection
  /\ myColor' = "white"
  /\ screen' = "game"
  /\ UNCHANGED <<fnCall, fnResult, cpuVars, peerVars>>

\* The REMATCH button, shown once there is a winner.
Rematch ==
  /\ fnCall = NoCall
  /\ screen = "game"
  /\ gameState.winner # "null"
  /\ gameState' = resetGame(gameState.gameMode, gameState.difficulty, "white")
  /\ selectedPiece' = NoSelection
  /\ UNCHANGED <<screen, fnCall, fnResult, myColor, cpuVars, peerVars>>

\* connection.on('data'): executeMove(data.move, true).
ExecuteMove(move) ==
  /\ fnCall = NoCall
  /\ screen = "game"
  /\ gameState' = executeMove(gameState, move)
  /\ selectedPiece' = NoSelection
  /\ UNCHANGED <<screen, fnCall, fnResult, myColor, cpuVars, peerVars>>

Next ==
  \/ ResetGame
  \/ Rematch
  \/ \E move \in MoveInputs(gameState, MaxMoves) : ExecuteMove(move)

Spec == Init /\ [][Next]_vars

(***************************************************************************)
(* The ways into a game: the menu, the difficulty screen, the lobby.       *)
(***************************************************************************)
\* startGame(mode), the three buttons of the menu overlay.
StartGame(mode) ==
  /\ fnCall = NoCall
  /\ screen = "menu"
  /\ IF mode = "online"
     THEN screen' = "lobby" /\ UNCHANGED <<gameState, selectedPiece, myColor>>
     ELSE IF mode = "ai"
     THEN screen' = "difficulty" /\ UNCHANGED <<gameState, selectedPiece, myColor>>
     ELSE /\ myColor' = "null"
          /\ gameState' = resetGame(mode, "medium", "white")
          /\ selectedPiece' = NoSelection
          /\ screen' = "game"
  /\ UNCHANGED <<fnCall, fnResult, cpuVars, peerVars>>

\* The buttons of the difficulty overlay: Easy, Medium, Hard and "CPU goes
\* first" (Hard with Black to move).
DifficultyChoices ==
  {<<"easy", "white">>, <<"medium", "white">>, <<"hard", "white">>, <<"hard", "black">>}

ChooseDifficulty(difficulty, firstPlayer) ==
  /\ fnCall = NoCall
  /\ screen = "difficulty"
  /\ gameState' = resetGame("ai", difficulty, firstPlayer)
  /\ selectedPiece' = NoSelection
  /\ screen' = "game"
  /\ UNCHANGED <<fnCall, fnResult, myColor, cpuVars, peerVars>>

\* The home button of the header and Cancel in the lobby.
GoToMenu ==
  /\ fnCall = NoCall
  /\ screen \in {"game", "lobby"}
  /\ screen' = "menu"
  /\ UNCHANGED <<gameState, fnCall, fnResult, appVars>>

\* A game played to its end: White completes row 0.
WonOpening == WinOpening \o <<Place(PAWN, 0, 3)>>

NextMenu ==
  \/ \E mode \in GameMode : StartGame(mode)
  \/ \E choice \in DifficultyChoices : ChooseDifficulty(choice[1], choice[2])
  \/ GoToMenu
  \/ ResetGame
  \/ Rematch
  \/ \E move \in MoveInputs(gameState, MaxMenuMoves)
                     \cup BookMovesIn({WonOpening}, gameState.history) : ExecuteMove(move)

SpecMenu == Init /\ [][NextMenu]_vars

(***************************************************************************)
(* The pure functions of gameLogic.ts, called on the states of a game:     *)
(* fnCall records the call and fnResult what it returned.                  *)
(***************************************************************************)
\* Destinations outside the grid, for the bounds check of isValidMove.
OutsideGrid == {Pos(-1, 0), Pos(0, GRID_SIZE)}

PieceArgs == [type : PieceType, color : Color, id : {"arg"}]

CallIsValidMove(piece, from, to) ==
  /\ fnCall = NoCall
  /\ screen = "game"
  /\ fnCall' = [fn |-> "isValidMove", piece |-> piece, from |-> from, to |-> to]
  /\ fnResult' = isValidMove(gameState, piece, from, to)
  /\ UNCHANGED <<gameState, screen, appVars>>

CallGetLegalMoves(color) ==
  /\ fnCall = NoCall
  /\ screen = "game"
  /\ fnCall' = [fn |-> "getLegalMoves", color |-> color]
  /\ fnResult' = getLegalMoves(gameState, color)
  /\ UNCHANGED <<gameState, screen, appVars>>

\* Boards for checkWin, which reads the colors on the board only: the lines
\* i and j are filled with pieces of the colors ci and cj (j over i where
\* they cross), and one square is then emptied or given to either color.
Stone(color) == [type |-> ROOK, color |-> color, id |-> "arg"]

LineBoard(i, ci, j, cj, pos, x) ==
  [r \in Coord |-> [c \in Coord |->
     IF Pos(r, c) = pos THEN x
     ELSE IF \E n \in 1 .. GRID_SIZE : WinLines[j][n] = Pos(r, c) THEN Stone(cj)
     ELSE IF \E n \in 1 .. GRID_SIZE : WinLines[i][n] = Pos(r, c) THEN Stone(ci)
     ELSE null]]

CallCheckWin(board, color) ==
  /\ fnCall = NoCall
  /\ screen = "game"
  /\ gameState.history = <<>>
  /\ fnCall' = [fn |-> "checkWin", board |-> board, color |-> color]
  /\ fnResult' = checkWin(board, color)
  /\ UNCHANGED <<gameState, screen, appVars>>

\* The updater of executeMove evaluated on the current state.
CallExecuteMove(move) ==
  /\ fnCall = NoCall
  /\ screen = "game"
  /\ fnCall' = [fn |-> "executeMove", move |-> move]
  /\ fnResult' = executeMove(gameState, move)
  /\ UNCHANGED <<gameState, screen, appVars>>

\* The arguments of serializeState taken from a game state.
Config(state) ==
  [board |-> state.board, hands |-> state.hands,
   currentPlayer |-> state.currentPlayer, pawnDirections |-> state.pawnDirections]

Reverse(s) == [i \in DOMAIN s |-> s[Len(s) + 1 - i]]

\* Configurations to compare `cfg` with: itself, the same pieces under other
\* identities, a hand in another order, a hand with an entry more or less,
\* one square changed, the other player to move, other pawn directions.
Variants(cfg) ==
  {cfg,
   [cfg EXCEPT !.board = [r \in Coord |-> [c \in Coord |->
      IF cfg.board[r][c] = null THEN null ELSE [cfg.board[r][c] EXCEPT !.id = "arg"]]]],
   [cfg EXCEPT !.currentPlayer = Opponent(@)]}
  \cup {[cfg EXCEPT !.hands[c] = Reverse(@)] : c \in Color}
  \cup {[cfg EXCEPT !.hands[c] = IF @ = <<>> THEN @ ELSE Append(Tail(@), Head(@))] : c \in Color}
  \cup {[cfg EXCEPT !.hands[c] = IF @ = <<>> THEN @ ELSE Tail(@)] : c \in Color}
  \cup {[cfg EXCEPT !.hands[c] = Append(@, k)] : c \in Color, k \in PieceType}
  \cup {[cfg EXCEPT !.board[pos.r][pos.c] = x] : pos \in Position, x \in PieceArgs \cup {null}}
  \cup {[cfg EXCEPT !.pawnDirections = d] : d \in [white : {-1, 1}, black : {-1, 1}]}

CallSerializeState(a, b) ==
  /\ fnCall = NoCall
  /\ screen = "game"
  /\ fnCall' = [fn |-> "serializeState", a |-> a, b |-> b]
  /\ fnResult' = <<serializeState(a.board, a.hands, a.currentPlayer, a.pawnDirections),
                   serializeState(b.board, b.hands, b.currentPlayer, b.pawnDirections)>>
  /\ UNCHANGED <<gameState, screen, appVars>>

NextFn ==
  \/ /\ fnCall = NoCall
     /\ gameState.history = <<>>
     /\ \E i \in DOMAIN WinLines, j \in DOMAIN WinLines, ci \in Color, cj \in Color,
           pos \in Position, x \in {null, Stone("white"), Stone("black")}, color \in Color :
           CallCheckWin(LineBoard(i, ci, j, cj, pos, x), color)
  \/ ResetGame
  \/ /\ fnCall = NoCall
     /\ \E move \in MoveInputs(gameState, MaxFnMoves) : ExecuteMove(move)
  \/ /\ fnCall = NoCall
     /\ \E piece \in PieceArgs, from \in Position, to \in Position \cup OutsideGrid :
           CallIsValidMove(piece, from, to)
  \/ /\ fnCall = NoCall
     /\ \E color \in Color : CallGetLegalMoves(color)
  \/ /\ fnCall = NoCall
     /\ \E move \in AnyMoves(gameState) : CallExecuteMove(move)
  \/ /\ fnCall = NoCall
     /\ \E b \in Variants(Config(gameState)) : CallSerializeState(Config(gameState), b)

SpecFn == Init /\ [][NextFn]_vars

(***************************************************************************)
(* The functions of cpuOpponent.ts, called on the states of a game against *)
(* the CPU.                                                                *)
(***************************************************************************)
\* getCpuMove(gameState): the state object is passed as it is, so what the
\* call does to its argument it does to the game state.
CallGetCpuMove ==
  /\ fnCall = NoCall
  /\ screen = "game"
  /\ fnCall' = [fn |-> "getCpuMove", state |-> gameState]
  /\ gameState' = GivenAfterGetCpuMove(gameState)
  /\ \E move \in getCpuMove(gameState) : fnResult' = move
  /\ UNCHANGED <<screen, appVars>>

\* getCpuMove called a second time on the same state.
CallGetCpuMoveTwice ==
  /\ fnCall = NoCall
  /\ screen = "game"
  /\ fnCall' = [fn |-> "getCpuMove twice", state |-> gameState]
  /\ gameState' = GivenAfterGetCpuMove(gameState)
  /\ \E results \in {getCpuMove(gameState)} :
       \E first \in results, second \in results : fnResult' = <<first, second>>
  /\ UNCHANGED <<screen, appVars>>

\* The call of minimax that Hard makes for the root move `move`.
CallMinimax(move) ==
  /\ fnCall = NoCall
  /\ screen = "game"
  /\ fnCall' = [fn |-> "minimax", move |-> move, state |-> simulateMove(gameState, move),
                depth |-> SearchDepth, isMaximizing |-> FALSE,
                aiColor |-> gameState.currentPlayer]
  /\ fnResult' = HardValue(gameState, move)
  /\ UNCHANGED <<gameState, screen, appVars>>

\* simulateMove(gameState, move) for a legal move of the player to move, as
\* Medium and Hard call it for every root move.
CallSimulateMove(move) ==
  /\ fnCall = NoCall
  /\ screen = "game"
  /\ fnCall' = [fn |-> "simulateMove", move |-> move, state |-> gameState]
  /\ fnResult' = simulateMove(gameState, move)
  /\ UNCHANGED <<gameState, screen, appVars>>

\* The nodes at which minimax can stop below the root `state`: the state after
\* a root move, and, where that state has no complete line and the players
\* have few moves, the states after the replies to it.
SearchNodes(state) ==
  LET moves == getLegalMoves(state, state.currentPlayer)
      first == {simulateMove(state, moves[i]) : i \in DOMAIN moves}
      open == {node \in first :
                 /\ checkWin(node.board, "white") = <<>>
                 /\ checkWin(node.board, "black") = <<>>
                 /\ Len(moves) <= MaxHardMoves}
      replies(node) == getLegalMoves(node, node.currentPlayer)
  IN  first \cup UNION {{simulateMove(node, replies(node)[i]) :
                            i \in DOMAIN replies(node)} : node \in open}

\* evaluateBoard(gameState.board, gameState.hands, aiColor) as minimax calls it
\* at a node of the search that getCpuMove starts for the player to move.
CallEvaluateBoard(node) ==
  /\ fnCall = NoCall
  /\ screen = "game"
  /\ gameState.winner = "null"
  /\ fnCall' = [fn |-> "evaluateBoard", board |-> node.board, hands |-> node.hands,
                aiColor |-> gameState.currentPlayer]
  /\ fnResult' = evaluateBoard(node.board, node.hands, gameState.currentPlayer)
  /\ UNCHANGED <<gameState, screen, appVars>>

\* Hard searches four plies deep: it is asked where the mover has few moves.
Searchable(state) ==
  state.difficulty = "hard" =>
    Len(getLegalMoves(state, state.currentPlayer)) <= MaxHardMoves

NextCpu ==
  \/ StartGame("ai")
  \/ \E choice \in DifficultyChoices : ChooseDifficulty(choice[1], choice[2])
  \/ /\ fnCall = NoCall
     /\ \E move \in BookMovesIn(Openings \cup CpuOpenings, gameState.history) :
          ExecuteMove(move)
  \/ /\ fnCall = NoCall
     /\ Searchable(gameState)
     /\ CallGetCpuMove
  \/ /\ fnCall = NoCall
     /\ Searchable(gameState)
     /\ CallGetCpuMoveTwice
  \/ /\ fnCall = NoCall
     /\ gameState.difficulty = "hard"
     /\ Searchable(gameState)
     /\ \E move \in Range(getLegalMoves(gameState, gameState.currentPlayer)) :
          CallMinimax(move)
  \/ /\ fnCall = NoCall
     /\ \E move \in Range(getLegalMoves(gameState, gameState.currentPlayer)) :
          CallSimulateMove(move)
  \/ /\ fnCall = NoCall
     /\ \E node \in SearchNodes(gameState) : CallEvaluateBoard(node)

SpecCpu == Init /\ [][NextCpu]_vars

(***************************************************************************)
(* Legal play, and getLegalMoves on the positions in which the player to   *)
(* move has played out its hand.                                           *)
(***************************************************************************)
\* The moves of legal play: the scripted ones that getLegalMoves offers
\* and, where the script is over, all that it offers.
LegalInputs(state, budget) ==
  LET legal == getLegalMoves(state, state.currentPlayer)
      scripted == BookMovesIn(Openings \cup CpuOpenings, state.history)
      plain(m) == Move(m.type, m.pieceType, m.from, m.to, null, "")
  IN  IF state.winner # "null" THEN {}
      ELSE IF FreePlay(state.history, budget) THEN {plain(m) : m \in Range(legal)}
      ELSE {plain(m) : m \in Range(legal)} \cap scripted

\* The squares of Black's four pieces once its hand is played out.  The
\* rules are the same under the two mirrorings of the board (the vertical
\* one turns the pawn directions round), so the rook is taken to stand in
\* the upper left quarter.
OwnPlacements ==
  {f \in [PieceType -> Position] :
     /\ f[ROOK].r <= 1 /\ f[ROOK].c <= 1
     /\ \A a \in PieceType, b \in PieceType : a # b => f[a] # f[b]}

\* The directions Black's pawn can have on `row`: a pawn that stands on an
\* edge row has turned its color round when it landed there.
PawnDirsOn(row) ==
  IF row = 0 THEN {1} ELSE IF row = GRID_SIZE - 1 THEN {-1} ELSE {-1, 1}

\* Where White's piece stands: on the square ahead of Black's pawn, or on
\* the first free square in reading order.
BlockerSquares(f, dir) ==
  LET free == Position \ Range(f)
      ahead == Pos(f[PAWN].r + dir, f[PAWN].c)
      first == CHOOSE i \in DOMAIN SquareSeq :
                 /\ SquareSeq[i] \in free
                 /\ \A j \in 1 .. (i - 1) : SquareSeq[j] \notin free
  IN  ({ahead} \cap free) \cup {SquareSeq[first]}

\* Black to move with an empty hand and its pieces on the squares f; White,
\* who has moved last, has its rook on `at` and the other kinds in hand.
PlayedOut(f, dir, at) ==
  [resetGame("ai", "easy", "white") EXCEPT
     !.board = [r \in Coord |-> [c \in Coord |->
                  IF \E k \in PieceType : f[k] = Pos(r, c)
                  THEN [type |-> CHOOSE k \in PieceType : f[k] = Pos(r, c),
                        color |-> "black", id |-> "arg"]
                  ELSE IF Pos(r, c) = at
                  THEN [type |-> ROOK, color |-> "white", id |-> "arg"]
                  ELSE null]],
     !.hands = [white |-> <<PAWN, KNIGHT, BISHOP>>, black |-> <<>>],
     !.pawnDirections = [white |-> -1, black |-> dir],
     !.currentPlayer = "black"]

\* getLegalMoves(state, state.currentPlayer) on a position without a line.
CallGetLegalMovesOn(state) ==
  /\ fnCall = NoCall
  /\ screen = "game"
  /\ gameState.history = <<>>
  /\ checkWin(state.board, "black") = <<>>
  /\ fnCall' = [fn |-> "getLegalMoves of position", state |-> state]
  /\ fnResult' = getLegalMoves(state, state.currentPlayer)
  /\ UNCHANGED <<gameState, screen, appVars>>

NextPlay ==
  \/ ResetGame
  \/ /\ fnCall = NoCall
     /\ \E move \in LegalInputs(gameState, MaxPlayMoves) : ExecuteMove(move)
  \/ /\ fnCall = NoCall
     /\ screen = "game"
     /\ gameState.history = <<>>
     /\ \E f \in OwnPlacements :
          \E dir \in PawnDirsOn(f[PAWN].r) :
            \E at \in BlockerSquares(f, dir) : CallGetLegalMovesOn(PlayedOut(f, dir, at))

SpecPlay == Init /\ [][NextPlay]_vars

(***************************************************************************)
(* App.tsx at work: the clicks on the hands and on the board, the CPU      *)
(* opponent's effect, and two peers of an online match.  An event handler  *)
(* runs to its end on the state that is rendered; the CPU's run has one    *)
(* await, which Hard alone keeps pending (its 800 ms timer).               *)
(***************************************************************************)
\* Mutant: the board takes clicks for the CPU's side as well.
CpuToMove_Never(state) == FALSE

\* `gameState.gameMode === 'ai' && gameState.currentPlayer === 'black'`
CpuToMove(state) == state.gameMode = "ai" /\ state.currentPlayer = "black"

\* Mutant: a kind chosen in the hand is placed on a taken square as well.
SquareTaken_Never(clickedPiece) == FALSE

\* `if (clickedPiece) return;`
SquareTaken(clickedPiece) == clickedPiece # null

\* The hand buttons that are not disabled:
\* `count === 0 || !isMyTurn || (gameMode === 'online' && !isOnlineSelf)`.
HandButtonEnabled(state, mine, type, color) ==
  /\ \E i \in DOMAIN state.hands[color] : state.hands[color][i] = type
  /\ state.currentPlayer = color
  /\ state.gameMode = "online" => mine = color

\* handleHandClick(type, color): the selection it leaves.
handleHandClick(state, selected, mine, type, color) ==
  IF state.winner # "null" THEN selected
  ELSE IF state.gameMode = "ai" /\ color = "black" THEN selected
  ELSE IF state.gameMode = "online" /\ color # mine THEN selected
  ELSE IF state.currentPlayer # color THEN selected
  ELSE IF selected # NoSelection /\ selected.from = NoPos /\ selected.type = type
  THEN NoSelection
  ELSE [type |-> type, from |-> NoPos]

\* handleCellClick(r, c): the selection it leaves and the move it passes to
\* executeMove (NoMove where it passes none).
handleCellClick(state, selected, mine, pos) ==
  LET clickedPiece == state.board[pos.r][pos.c]
      ownPiece == clickedPiece # null /\ clickedPiece.color = state.currentPlayer
      keep == [selected |-> selected, move |-> NoMove]
      pick == [selected |-> [type |-> clickedPiece.type, from |-> pos], move |-> NoMove]
      move == Move(IF selected.from # NoPos THEN "move" ELSE "place",
                   selected.type, selected.from, pos, null, "")
      pass == [selected |-> selected, move |-> move]
  IN
  IF state.winner # "null" THEN keep
  ELSE IF CpuToMove(state) THEN keep
  ELSE IF state.gameMode = "online" /\ state.currentPlayer # mine THEN keep
  ELSE IF selected # NoSelection
  THEN IF selected.from # NoPos /\ isPosEqual(selected.from, pos)
       THEN [selected |-> NoSelection, move |-> NoMove]
       ELSE IF ownPiece THEN pick
       ELSE IF move.type = "place"
       THEN IF SquareTaken(clickedPiece) THEN keep ELSE pass
       ELSE LET boardPiece == state.board[move.from.r][move.from.c]
            IN  IF boardPiece # null /\ isValidMove(state, boardPiece, move.from, move.to).valid
                THEN pass ELSE keep
  ELSE IF ownPiece THEN pick ELSE keep

\* Mutant: the effect starts a run while one is pending.
RunCpuGuard_WhileThinking(state, thinking) ==
  state.currentPlayer = "black" /\ state.gameMode = "ai" /\ state.winner = "null"

\* The condition of the CPU effect.
RunCpuGuard(state, thinking) ==
  /\ state.currentPlayer = "black" /\ state.gameMode = "ai" /\ state.winner = "null"
  /\ ~thinking

\* What `await getCpuMove(gameState)` may resolve to.  Beyond the bound of
\* the search Hard's answer is left open among the legal moves.
CpuAnswers(state) ==
  IF Searchable(state) THEN getCpuMove(state)
  ELSE {Returned(m) : m \in Range(getLegalMoves(state, state.currentPlayer))}

\* A run of Easy or Medium is pending: its await resolves before any other
\* event is handled.
InstantRun == \E i \in DOMAIN cpuRuns : cpuRuns[i].state.difficulty # "hard"

\* The games followed: the user's clicks and the starts of the CPU are
\* followed along the openings and for MaxAppMoves moves after them (a move
\* received from the peer is in the history with the identity sent).
Followed(state) ==
  LET h == [i \in DOMAIN state.history |-> [state.history[i] EXCEPT !.pieceId = ""]]
  IN  FreePlay(h, MaxAppMoves) \/ BookMoves(h) # {}

\* While a run of the CPU is pending the user gets as far as the first move
\* of a game.
ClicksFollowed ==
  Followed(gameState) /\ (cpuRuns = <<>> \/ gameState.history = <<>>)

\* The home button is followed before the first move of a game and once the
\* game is over.
HomeFollowed ==
  gameState.history = <<>> \/ gameState.winner # "null" \/ screen = "lobby"

\* `{ ...move, pieceId: activePiece.id }`
Outgoing(prev, move) ==
  [move EXCEPT !.pieceId = IF move.type = "place"
                           THEN PieceId(prev, move, prev.currentPlayer)
                           ELSE prev.board[move.from.r][move.from.c].id]

\* The messages a local executeMove(move) on `prev` sends:
\* `!isRemote && prev.gameMode === 'online' && connRef.current?.open`,
\* reached once the move has passed the early returns of the updater.
Sent(prev, move, open) ==
  IF open /\ prev.gameMode = "online" /\ executeMove(prev, move) # prev
  THEN <<[type |-> "MOVE", move |-> Outgoing(prev, move)]>>
  ELSE <<>>

\* The home button is followed while no peer is connected.
Unconnected == ~remote.connected

HandClick(type, color) ==
  /\ screen = "game"
  /\ ~InstantRun
  /\ ClicksFollowed
  /\ HandButtonEnabled(gameState, myColor, type, color)
  /\ selectedPiece' = handleHandClick(gameState, selectedPiece, myColor, type, color)
  /\ UNCHANGED <<gameState, screen, fnCall, fnResult, myColor, cpuVars, peerVars>>

CellClick(pos) ==
  /\ screen = "game"
  /\ ~InstantRun
  /\ ClicksFollowed
  /\ LET click == handleCellClick(gameState, selectedPiece, myColor, pos)
     IN  IF click.move = NoMove
         THEN selectedPiece' = click.selected /\ UNCHANGED <<gameState, net>>
         ELSE /\ gameState' = executeMove(gameState, click.move)
              /\ selectedPiece' = NoSelection
              /\ net' = [net EXCEPT !.toRemote =
                           @ \o Sent(gameState, click.move, remote.connected)]
  /\ UNCHANGED <<screen, fnCall, fnResult, myColor, cpuVars, remote>>

\* The CPU effect up to its await: `setIsAiThinking(true)` and the call
\* getCpuMove(gameState) on the state rendered.
RunCpuStart ==
  /\ RunCpuGuard(gameState, isAiThinking)
  /\ Len(cpuRuns) < MaxRuns
  /\ Followed(gameState)
  /\ isAiThinking' = TRUE
  /\ cpuRuns' = Append(cpuRuns, [state |-> gameState])
  /\ UNCHANGED <<gameState, screen, fnCall, fnResult, selectedPiece, myColor, peerVars>>

\* The rest of the run: `if (move) executeMove(move); setIsAiThinking(false)`.
RunCpuFinish ==
  /\ cpuRuns # <<>>
  /\ \E move \in CpuAnswers(Head(cpuRuns).state) :
       IF move = NoMove THEN UNCHANGED <<gameState, selectedPiece, net>>
       ELSE /\ gameState' = executeMove(gameState, move)
            /\ selectedPiece' = NoSelection
            /\ net' = [net EXCEPT !.toRemote = @ \o Sent(gameState, move, remote.connected)]
  /\ isAiThinking' = FALSE
  /\ cpuRuns' = Tail(cpuRuns)
  /\ UNCHANGED <<screen, fnCall, fnResult, myColor, remote>>

\* The two ends of a new connection: peer.on('connection') at the host,
\* who plays White, and connection.on('open') at the guest, who has pressed
\* JOIN in the lobby and plays Black.  The local peer is either.  The peers
\* are followed from a connection made while no run of the CPU is pending.
PeerConnects(mine) ==
  /\ screen = "lobby"
  /\ ~remote.connected
  /\ cpuRuns = <<>>
  /\ myColor' = mine
  /\ gameState' = resetGame("online", "medium", "white")
  /\ selectedPiece' = NoSelection
  /\ screen' = "game"
  /\ remote' = [connected |-> TRUE,
                gameState |-> resetGame("online", "medium", "white"),
                selectedPiece |-> NoSelection,
                myColor |-> Opponent(mine)]
  /\ net' = NoNet
  /\ UNCHANGED <<fnCall, fnResult, cpuVars>>

\* connection.on('data') at the local peer: executeMove(data.move, true).
ReceiveMove ==
  /\ net.toLocal # <<>>
  /\ gameState' = executeMove(gameState, Head(net.toLocal).move)
  /\ selectedPiece' = NoSelection
  /\ net' = [net EXCEPT !.toLocal = Tail(@)]
  /\ UNCHANGED <<screen, fnCall, fnResult, myColor, cpuVars, remote>>

\* The same handlers at the other peer, which stays on its game screen.
RemoteActive == remote.connected /\ gameState.gameMode = "online"

RemoteHandClick(type, color) ==
  /\ RemoteActive
  /\ Followed(remote.gameState)
  /\ HandButtonEnabled(remote.gameState, remote.myColor, type, color)
  /\ remote' = [remote EXCEPT !.selectedPiece =
                  handleHandClick(remote.gameState, @, remote.myColor, type, color)]
  /\ UNCHANGED <<gameState, screen, fnCall, fnResult, selectedPiece, myColor, cpuVars, net>>

RemoteCellClick(pos) ==
  /\ RemoteActive
  /\ Followed(remote.gameState)
  /\ LET click == handleCellClick(remote.gameState, remote.selectedPiece, remote.myColor, pos)
     IN  IF click.move = NoMove
         THEN remote' = [remote EXCEPT !.selectedPiece = click.selected] /\ UNCHANGED net
         ELSE /\ remote' = [remote EXCEPT !.gameState = executeMove(@, click.move),
                                          !.selectedPiece = NoSelection]
              /\ net' = [net EXCEPT !.toLocal = @ \o Sent(remote.gameState, click.move, TRUE)]
  /\ UNCHANGED <<gameState, screen, fnCall, fnResult, selectedPiece, myColor, cpuVars>>

RemoteReceiveMove ==
  /\ remote.connected
  /\ net.toRemote # <<>>
  /\ remote' = [remote EXCEPT !.gameState = executeMove(@, Head(net.toRemote).move),
                              !.selectedPiece = NoSelection]
  /\ net' = [net EXCEPT !.toRemote = Tail(@)]
  /\ UNCHANGED <<gameState, screen, fnCall, fnResult, selectedPiece, myColor, cpuVars>>

RemoteRematch ==
  /\ RemoteActive
  /\ remote.gameState.winner # "null"
  /\ remote' = [remote EXCEPT
                  !.gameState = resetGame(@.gameMode, @.difficulty, "white"),
                  !.selectedPiece = NoSelection]
  /\ UNCHANGED <<gameState, screen, fnCall, fnResult, selectedPiece, myColor, cpuVars, net>>

NextApp ==
  \/ ~InstantRun /\ \E mode \in GameMode : StartGame(mode)
  \/ ~InstantRun /\ \E choice \in DifficultyChoices : ChooseDifficulty(choice[1], choice[2])
  \/ ~InstantRun /\ HomeFollowed /\ Unconnected /\ GoToMenu
  \/ ~InstantRun /\ Rematch
  \/ \E type \in PieceType, color \in Color : HandClick(type, color)
  \/ \E pos \in Position : CellClick(pos)
  \/ RunCpuStart
  \/ RunCpuFinish
  \/ ~InstantRun /\ \E mine \in Color : PeerConnects(mine)
  \/ ReceiveMove
  \/ \E type \in PieceType, color \in Color : RemoteHandClick(type, color)
  \/ \E pos \in Position : RemoteCellClick(pos)
  \/ RemoteReceiveMove
  \/ RemoteRematch

SpecApp == Init /\ [][NextApp]_vars

(***************************************************************************)
(* A game in which the players keep moving without ever completing a line: *)
(* each puts its rook on a corner of an outer row and shuttles it along    *)
(* that row, one over two squares and the other over three.                *)
(***************************************************************************)
ShuttleMoves ==
  {Place(ROOK, r, 0) : r \in {0, GRID_SIZE - 1}}
  \cup {Relocate(ROOK, r, a, r, b) : r \in {0, GRID_SIZE - 1}, a \in 0 .. 2, b \in 0 .. 2}

\* The squares of the shuttle: the first to place takes the short one.
ShuttleSquares(state) ==
  LET first == IF state.history = <<>> THEN NoPos ELSE state.history[1].to
  IN  {pos \in Position :
         \/ pos.r = first.r /\ pos.c <= 1
         \/ pos.r # first.r /\ pos.r \in {0, GRID_SIZE - 1} /\ pos.c <= 2}

\* The legal moves of the player to move that are moves of the shuttle.
LiveInputs(state) ==
  LET legal == getLegalMoves(state, state.currentPlayer)
      plain(m) == Move(m.type, m.pieceType, m.from, m.to, null, "")
  IN  IF state.winner # "null" \/ Len(state.history) >= MaxLiveMoves THEN {}
      ELSE {plain(m) : m \in Range(legal)} \cap
             {m \in ShuttleMoves : state.history = <<>> \/ m.to \in ShuttleSquares(state)}

LiveMove ==
  /\ fnCall = NoCall
  /\ screen = "game"
  /\ \E move \in LiveInputs(gameState) : ExecuteMove(move)

\* A move of the shuttle can be made (every such move changes the game, so
\* this is ENABLED <<LiveMove>>_vars).
CanMove == fnCall = NoCall /\ screen = "game" /\ LiveInputs(gameState) # {}

NextLive ==
  \/ screen = "menu" /\ ResetGame
  \/ LiveMove

\* The game is started and the players keep moving: weak fairness of the
\* start, and of the moves with their enabling condition written out.
SpecLive ==
  /\ Init /\ [][NextLive]_vars
  /\ WF_vars(screen = "menu" /\ ResetGame)
  /\ ([]<>~CanMove \/ []<><<LiveMove>>_vars)

(***************************************************************************)
(* Vocabulary of the properties                                            *)
(***************************************************************************)
\* A step in which executeMove applied a move (history grew by one entry).
Applied == Len(gameState'.history) = Len(gameState.history) + 1

AppliedMove == gameState'.history[Len(gameState'.history)]

Count(s, k) == Cardinality({i \in DOMAIN s : s[i] = k})

Cell(state, pos) == state.board[pos.r][pos.c]

\* The rows, the columns and the two main diagonals, as sets of squares.
LineSets ==
  {{Pos(r, c) : c \in Coord} : r \in Coord}
  \cup {{Pos(r, c) : r \in Coord} : c \in Coord}
  \cup {{Pos(i, i) : i \in Coord}, {Pos(i, GRID_SIZE - 1 - i) : i \in Coord}}

OwnedLines(board, color) ==
  {L \in LineSets : \A pos \in L : board[pos.r][pos.c].color = color}

KeyOf(state) ==
  serializeState(state.board, state.hands, state.currentPlayer, state.pawnDirections)

\* Is `state` a counted occurrence of the configuration `key`?  The starting
\* configuration counts, and so does every configuration left by a move
\* that did not complete a line.
Occurs(state, key) ==
  IF state.winner \notin Color /\ KeyOf(state) = key THEN 1 ELSE 0

\* The occurrences of `key` in `state` and in the states that the moves
\* h[i], h[i+1], ... lead through from it.
RECURSIVE OccurrencesFrom(_, _, _, _)
OccurrencesFrom(state, h, i, key) ==
  IF i > Len(h) THEN Occurs(state, key)
  ELSE CHOOSE n \in {Occurs(state, key) + OccurrencesFrom(after, h, i + 1, key) :
                       after \in {executeMove(state, h[i])}} : TRUE

\* How often the configuration of `state` has come up in its game.
Occurrences(state) ==
  OccurrencesFrom(resetGame(state.gameMode, state.difficulty, "white"),
                  state.history, 1, KeyOf(state))

(***************************************************************************)
(* C1  Whenever an applied move lands on a square occupied by a piece of   *)
(* the opposing color, exactly one entry of the captured piece's kind is   *)
(* appended to the hand of the mover's opponent, and the capture adds      *)
(* nothing to the mover's hand.  (A square is occupied for the landing     *)
(* piece when it holds another piece: a relocation onto its own origin     *)
(* finds the square empty.)                                                *)
(***************************************************************************)
C1_Step ==
  Applied =>
    LET m == AppliedMove
        mover == gameState.currentPlayer
        opp == Opponent(mover)
        onto == IF m.type = "move" /\ m.from = m.to THEN null ELSE Cell(gameState, m.to)
    IN  onto.color = opp =>
          /\ gameState'.hands[opp] = Append(gameState.hands[opp], onto.type)
          /\ \A k \in PieceType :
               Count(gameState'.hands[mover], k) <= Count(gameState.hands[mover], k)
          /\ m.type = "move" => gameState'.hands[mover] = gameState.hands[mover]

C1_CaptureGoesToVictim == [][C1_Step]_vars

\* White's rook has just taken Black's bishop on (3,0).
C1_Witness ==
  /\ gameState.history = Append(WinOpening, Relocate(ROOK, 0, 0, 3, 0))
  /\ gameState.board[3][0].color = "white"
  /\ gameState.hands.black = <<PAWN, BISHOP>>
  /\ gameState.hands.white = <<PAWN>>

(***************************************************************************)
(* C2  In every state reachable from a reset game the multiset of piece    *)
(* kinds over the board plus both hands is the one of the start: 8 entries,*)
(* two of each kind.                                                       *)
(***************************************************************************)
KindTotal(state, k) ==
  Cardinality({pos \in Position : Cell(state, pos).type = k})
  + Count(state.hands.white, k) + Count(state.hands.black, k)

PieceTotal(state) ==
  Cardinality({pos \in Position : Cell(state, pos) # null})
  + Len(state.hands.white) + Len(state.hands.black)

C3_Step ==
  Applied =>
    LET mover == gameState.currentPlayer
        owned == OwnedLines(gameState'.board, mover)
        line == gameState'.winningLine
    IN  /\ gameState.winner = "null"
        /\ gameState'.winner = mover <=> owned # {}
        /\ owned # {} => Len(line) = GRID_SIZE /\ Range(line) \in owned
        /\ owned = {} => line = <<>>

C3_WinnerIffLine == [][C3_Step]_vars

\* White has completed row 0 with its pawn.
C3_Witness ==
  /\ gameState.winner = "white"
  /\ gameState.winningLine = <<Pos(0, 0), Pos(0, 1), Pos(0, 2), Pos(0, 3)>>
  /\ gameState.history = Append(WinOpening, Place(PAWN, 0, 3))

(***************************************************************************)
(* C4  After a non-winning applied move the count of the resulting         *)
(* configuration is incremented by one, and winner becomes Draw exactly    *)
(* when that configuration occurs for the third time in the game.          *)
(***************************************************************************)
C4_Step ==
  (Applied /\ gameState'.winner # gameState.currentPlayer) =>
    LET key == KeyOf(gameState')
        counts == gameState.positionCounts
        before == IF key \in DOMAIN counts THEN counts[key] ELSE 0
        after == gameState'.positionCounts
    IN  /\ DOMAIN after = (DOMAIN counts) \cup {key}
        /\ after[key] = before + 1
        /\ \A k \in (DOMAIN counts) \ {key} : after[k] = counts[k]
        /\ \E seen \in {Occurrences(gameState')} :
             /\ after[key] = seen
             /\ gameState'.winner = "draw" <=> seen = 3
             /\ gameState'.winner # "draw" => seen \in {1, 2}

C4_DrawOnThirdOccurrence == [][C4_Step]_vars

\* The shuttling rooks have brought the same configuration up three times.
C4_Witness ==
  /\ gameState.winner = "draw"
  /\ gameState.history = Append(DrawOpening, Relocate(ROOK, 3, 1, 3, 0))
  /\ gameState.positionCounts[KeyOf(gameState)] = 3

(***************************************************************************)
(* C5  Once winner is White, Black or Draw, every later attempt to apply a *)
(* move leaves the whole game state unchanged, until the game is reset.    *)
(***************************************************************************)
IsFreshGame(state) ==
  /\ state.history = <<>>
  /\ state.winner = "null"
  /\ state.board = createEmptyBoard

C5_Step ==
  gameState.winner # "null" => (gameState' = gameState \/ IsFreshGame(gameState'))

C5_FinishedGameIsFrozen == [][C5_Step]_vars

\* Black has completed row 3; further moves are tried on this state.
C5_Witness ==
  /\ gameState.winner = "black"
  /\ gameState.history = Append(BlackWinOpening, Place(PAWN, 3, 3))
  /\ AnyMoves(gameState) \subseteq MoveInputs(gameState, MaxMoves)

(***************************************************************************)
(* Vocabulary of the properties of the pure functions                      *)
(***************************************************************************)
ValidatorCalled == fnCall.fn = "isValidMove"

\* The call's destination is inside the grid and does not hold a piece of
\* the moving piece's color.
OpenDestination ==
  /\ fnCall.to \in Position
  /\ Cell(gameState, fnCall.to).color # fnCall.piece.color

\* The squares strictly between two squares of one row, column or diagonal.
StrictlyBetween(from, to) ==
  {pos \in Position :
     /\ pos # from /\ pos # to
     /\ (pos.r - from.r) * (to.c - from.c) = (pos.c - from.c) * (to.r - from.r)
     /\ (from.r <= pos.r /\ pos.r <= to.r) \/ (to.r <= pos.r /\ pos.r <= from.r)
     /\ (from.c <= pos.c /\ pos.c <= to.c) \/ (to.c <= pos.c /\ pos.c <= from.c)}

PathClear(from, to) == \A pos \in StrictlyBetween(from, to) : Cell(gameState, pos) = null

(***************************************************************************)
(* C6  getLegalMoves returns exactly, and without duplicates, one          *)
(* Placement per distinct kind in the color's hand and per empty square,   *)
(* and one Relocation per pair (from, to) with a piece of that color on    *)
(* from, to different from from and isValidMove valid; each Relocation     *)
(* carries the occupant of to as its capture.                              *)
(***************************************************************************)
ExpectedPlacements(state, color) ==
  {Move("place", k, NoPos, to, null, "") :
     k \in Range(state.hands[color]), to \in {pos \in Position : Cell(state, pos) = null}}

ExpectedRelocations(state, color) ==
  {Move("move", Cell(state, ft[1]).type, ft[1], ft[2], Cell(state, ft[2]), "") :
     ft \in {pair \in Position \X Position :
               /\ Cell(state, pair[1]).color = color
               /\ pair[2] # pair[1]
               /\ isValidMove(state, Cell(state, pair[1]), pair[1], pair[2]).valid}}

C6_LegalMovesExact ==
  fnCall.fn = "getLegalMoves" =>
    /\ Range(fnResult) =
         ExpectedPlacements(gameState, fnCall.color)
         \cup ExpectedRelocations(gameState, fnCall.color)
    /\ \A i, j \in DOMAIN fnResult : i # j => fnResult[i] # fnResult[j]

\* Black's hand holds two bishops, and Black's knight can take White's rook.
C6_Witness ==
  /\ fnCall.fn = "getLegalMoves"
  /\ fnCall.color = "black"
  /\ Count(gameState.hands.black, BISHOP) = 2
  /\ \E i \in DOMAIN fnResult : fnResult[i].type = "place" /\ fnResult[i].pieceType = BISHOP
  /\ \E i \in DOMAIN fnResult : fnResult[i].type = "move" /\ fnResult[i].captured # null

(***************************************************************************)
(* C7  isValidMove never returns valid when the destination square holds a *)
(* piece of the same color as the moving piece.                            *)
(***************************************************************************)
C7_NoSelfCapture ==
  (/\ ValidatorCalled
   /\ fnCall.to \in Position
   /\ Cell(gameState, fnCall.to).color = fnCall.piece.color) => ~fnResult.valid

\* A knight's jump onto a friendly piece was refused.
C7_Witness ==
  /\ ValidatorCalled
  /\ fnCall.piece.type = KNIGHT
  /\ fnCall.to \in Position
  /\ Abs(fnCall.to.r - fnCall.from.r) = 2 /\ Abs(fnCall.to.c - fnCall.from.c) = 1
  /\ Cell(gameState, fnCall.to).color = fnCall.piece.color
  /\ ~fnResult.valid

(***************************************************************************)
(* C8  For a Rook and an in-bounds destination not holding a friendly      *)
(* piece, isValidMove is valid iff origin and destination share a row or a *)
(* column (exactly one coordinate changes) and every square strictly       *)
(* between them on that line is empty.                                     *)
(***************************************************************************)
C8_RookRule ==
  (ValidatorCalled /\ fnCall.piece.type = ROOK /\ OpenDestination) =>
    (fnResult.valid <=>
       /\ (fnCall.to.r = fnCall.from.r) # (fnCall.to.c = fnCall.from.c)
       /\ PathClear(fnCall.from, fnCall.to))

(***************************************************************************)
(* C9  For a Bishop and an in-bounds destination not holding a friendly    *)
(* piece, isValidMove is valid iff the absolute row delta equals the       *)
(* absolute column delta (non-zero) and every square strictly between      *)
(* origin and destination on that diagonal is empty.                       *)
(***************************************************************************)
C9_BishopRule ==
  (ValidatorCalled /\ fnCall.piece.type = BISHOP /\ OpenDestination) =>
    (fnResult.valid <=>
       /\ Abs(fnCall.to.r - fnCall.from.r) = Abs(fnCall.to.c - fnCall.from.c)
       /\ fnCall.to.r # fnCall.from.r
       /\ PathClear(fnCall.from, fnCall.to))

\* A bishop's diagonal was refused because of a piece standing on it.
C9_Witness ==
  /\ ValidatorCalled /\ fnCall.piece.type = BISHOP /\ OpenDestination
  /\ Abs(fnCall.to.r - fnCall.from.r) = Abs(fnCall.to.c - fnCall.from.c)
  /\ Abs(fnCall.to.r - fnCall.from.r) >= 2
  /\ ~PathClear(fnCall.from, fnCall.to)
  /\ ~fnResult.valid

(***************************************************************************)
(* C10  For a Knight and an in-bounds destination not holding a friendly   *)
(* piece, isValidMove is valid iff the absolute deltas are (2,1) or (1,2), *)
(* whatever occupies any other square.                                     *)
(***************************************************************************)
C10_KnightRule ==
  (ValidatorCalled /\ fnCall.piece.type = KNIGHT /\ OpenDestination) =>
    (fnResult.valid <=>
       {Abs(fnCall.to.r - fnCall.from.r), Abs(fnCall.to.c - fnCall.from.c)} = {1, 2})

\* A knight jumped although both squares next to it on its way are occupied.
C10_Witness ==
  /\ ValidatorCalled /\ fnCall.piece.type = KNIGHT /\ OpenDestination
  /\ fnCall.from = Pos(0, 1) /\ fnCall.to = Pos(1, 3)
  /\ Cell(gameState, Pos(0, 2)) # null /\ Cell(gameState, Pos(1, 1)) # null
  /\ fnResult.valid

(***************************************************************************)
(* C11  For a Pawn and an in-bounds destination, isValidMove is valid iff  *)
(* the row delta equals the owner's current pawn direction and either the  *)
(* column is unchanged and the destination is empty, or the column changes *)
(* by exactly one and the destination holds an opposing piece.             *)
(***************************************************************************)
C11_PawnRule ==
  (ValidatorCalled /\ fnCall.piece.type = PAWN /\ fnCall.to \in Position) =>
    LET dr == fnCall.to.r - fnCall.from.r
        dc == fnCall.to.c - fnCall.from.c
        target == Cell(gameState, fnCall.to)
        owner == fnCall.piece.color
    IN  fnResult.valid <=>
          /\ dr = gameState.pawnDirections[owner]
          /\ \/ dc = 0 /\ target = null
             \/ Abs(dc) = 1 /\ target.color = Opponent(owner)

\* After White's direction has turned, a White pawn's capture towards row 3
\* is accepted.
C11_Witness ==
  /\ ValidatorCalled /\ fnCall.piece = [type |-> PAWN, color |-> "white", id |-> "arg"]
  /\ gameState.pawnDirections.white = 1
  /\ fnCall.to \in Position
  /\ fnCall.to.r = fnCall.from.r + 1 /\ Abs(fnCall.to.c - fnCall.from.c) = 1
  /\ Cell(gameState, fnCall.to).color = "black"
  /\ fnResult.valid

(***************************************************************************)
(* C12  After a color relocates a pawn of its own onto row 0 its pawn      *)
(* direction is +1, and after relocating one onto row 3 it is -1; in the   *)
(* resulting state isValidMove accepts a pawn step of that color only      *)
(* towards the opposite edge, and accepts the straight step from the       *)
(* landing square when the square ahead is empty.  A color's direction     *)
(* stays as it is until that color lands a pawn on an edge row again (or   *)
(* the game is reset).                                                     *)
(***************************************************************************)
EdgeDirection(row) == IF row = 0 THEN 1 ELSE -1

C12_Step ==
  /\ Applied =>
       LET m == AppliedMove
           mover == gameState.currentPlayer
           pawn == [type |-> PAWN, color |-> mover, id |-> "arg"]
           dir == EdgeDirection(m.to.r)
           ahead == Pos(m.to.r + dir, m.to.c)
       IN  (/\ m.type = "move"
            /\ Cell(gameState, m.from) # null
            /\ Cell(gameState, m.from).type = PAWN
            /\ Cell(gameState, m.from).color = mover
            /\ m.to.r \in {0, GRID_SIZE - 1}) =>
             /\ gameState'.pawnDirections[mover] = dir
             /\ \A from \in Position, to \in Position :
                  isValidMove(gameState', pawn, from, to).valid => to.r - from.r = dir
             /\ isValidMove(gameState', pawn, m.to, ahead).valid
                  <=> Cell(gameState', ahead) = null
  /\ \A c \in Color :
       gameState'.pawnDirections[c] # gameState.pawnDirections[c] =>
         \/ IsFreshGame(gameState')
         \/ /\ Applied
            /\ c = gameState.currentPlayer
            /\ Cell(gameState', AppliedMove.to).type = PAWN
            /\ AppliedMove.to.r \in {0, GRID_SIZE - 1}
            /\ gameState'.pawnDirections[c] = EdgeDirection(AppliedMove.to.r)

C12_PawnTurnsAtEdge == [][C12_Step]_vars

\* White's pawn has taken on row 0 and White's direction has turned; later
\* the same pawn has stepped towards row 3 and Black's has turned as well.
C12_Witness ==
  /\ gameState.history = PawnFlipOpening
  /\ gameState.pawnDirections = [white |-> 1, black |-> -1]
  /\ Cell(gameState, Pos(1, 1)).type = PAWN /\ Cell(gameState, Pos(1, 1)).color = "white"
  /\ Cell(gameState, Pos(3, 1)).type = PAWN /\ Cell(gameState, Pos(3, 1)).color = "black"

(***************************************************************************)
(* C13  checkWin returns a line iff some row, column or main diagonal has  *)
(* all four squares occupied by pieces of the color; the line returned is  *)
(* the first such line in the order rows, columns, diagonal, anti-diagonal *)
(* (its squares in reading order); a line with three pieces of the color   *)
(* and the fourth square empty or the opponent's does not qualify.         *)
(***************************************************************************)
\* The place of a line in the order rows, columns, diagonal, anti-diagonal.
LineRank(L) ==
  IF \E r \in Coord : \A pos \in L : pos.r = r
  THEN CHOOSE r \in Coord : \A pos \in L : pos.r = r
  ELSE IF \E c \in Coord : \A pos \in L : pos.c = c
  THEN GRID_SIZE + (CHOOSE c \in Coord : \A pos \in L : pos.c = c)
  ELSE IF \A pos \in L : pos.r = pos.c THEN 2 * GRID_SIZE
  ELSE 2 * GRID_SIZE + 1

ReadingOrder(line) ==
  \A j, k \in DOMAIN line :
    j < k => \/ line[j].r < line[k].r
             \/ line[j].r = line[k].r /\ line[j].c < line[k].c

C13_CheckWin ==
  fnCall.fn = "checkWin" =>
    LET owned == OwnedLines(fnCall.board, fnCall.color)
    IN  /\ fnResult # <<>> <=> owned # {}
        /\ owned # {} =>
             /\ Len(fnResult) = GRID_SIZE
             /\ ReadingOrder(fnResult)
             /\ Range(fnResult) \in owned
             /\ \A L \in owned : LineRank(Range(fnResult)) <= LineRank(L)

\* Column 1 and the diagonal are both White's, Black holds square (0,2)
\* (one not on these lines): the column is returned.
C13_Witness ==
  /\ fnCall.fn = "checkWin" /\ fnCall.color = "white"
  /\ Cardinality(OwnedLines(fnCall.board, "white")) = 2
  /\ \A i \in Coord : Cell(fnCall, Pos(i, i)).color = "white"
  /\ Cell(fnCall, Pos(0, 2)).color = "black"
  /\ fnResult = <<Pos(0, 1), Pos(1, 1), Pos(2, 1), Pos(3, 1)>>

(***************************************************************************)
(* C18  Applying a Placement of a kind that is not in the mover's hand, or *)
(* a Relocation whose origin square is empty, returns the state unchanged: *)
(* board, hands, pawn directions, player to move, winner, history and      *)
(* positionCounts are all as before.                                       *)
(***************************************************************************)
Impossible(state, move) ==
  \/ move.type = "place" /\ move.pieceType \notin Range(state.hands[state.currentPlayer])
  \/ move.type = "move" /\ Cell(state, move.from) = null

C18_ImpossibleMoveIsNoOp ==
  (fnCall.fn = "executeMove" /\ Impossible(gameState, fnCall.move)) =>
    /\ fnResult.board = gameState.board
    /\ fnResult.hands = gameState.hands
    /\ fnResult.pawnDirections = gameState.pawnDirections
    /\ fnResult.currentPlayer = gameState.currentPlayer
    /\ fnResult.winner = gameState.winner
    /\ fnResult.winningLine = gameState.winningLine
    /\ fnResult.history = gameState.history
    /\ fnResult.positionCounts = gameState.positionCounts

\* In a running game White, whose rook is on the board, places a rook.
C18_Witness ==
  /\ fnCall.fn = "executeMove"
  /\ gameState.winner = "null" /\ gameState.currentPlayer = "white"
  /\ gameState.history # <<>>
  /\ fnCall.move.type = "place" /\ fnCall.move.pieceType = ROOK
  /\ ROOK \notin Range(gameState.hands.white)
  /\ Cell(gameState, fnCall.move.to) = null
  /\ fnResult = gameState

(***************************************************************************)
(* C19  serializeState gives two configurations the same key iff they have *)
(* the same color and kind on every square, the same multiset of hand      *)
(* kinds for each color, the same player to move and the same pawn         *)
(* directions; the order of a hand and the identities of the pieces do not *)
(* affect the key.                                                         *)
(***************************************************************************)
SameConfiguration(a, b) ==
  /\ \A pos \in Position :
       /\ Cell(a, pos).color = Cell(b, pos).color
       /\ Cell(a, pos).type = Cell(b, pos).type
  /\ \A c \in Color, k \in PieceType : Count(a.hands[c], k) = Count(b.hands[c], k)
  /\ a.currentPlayer = b.currentPlayer
  /\ a.pawnDirections = b.pawnDirections

C19_KeyIffSameConfiguration ==
  fnCall.fn = "serializeState" =>
    /\ fnResult[1] = fnResult[2] <=> SameConfiguration(fnCall.a, fnCall.b)
    /\ KeyString(fnResult[1]) = KeyString(fnResult[2])
         <=> SameConfiguration(fnCall.a, fnCall.b)

\* The configuration of a game under way, with White's hand held in another
\* order, has the same key.
C19_Witness ==
  /\ fnCall.fn = "serializeState"
  /\ fnCall.a.hands.white # fnCall.b.hands.white
  /\ Len(fnCall.a.hands.white) >= 2
  /\ \E pos \in Position : Cell(fnCall.a, pos) # null
  /\ SameConfiguration(fnCall.a, fnCall.b)
  /\ fnResult[1] = fnResult[2]
  /\ KeyString(fnResult[1]) = KeyString(fnResult[2])

(***************************************************************************)
(* C20  After every resetGame the state has an empty board, each hand      *)
(* holding exactly one Pawn, one Rook, one Knight and one Bishop, pawn     *)
(* directions White = -1 and Black = +1, no winner, an empty history, and  *)
(* positionCounts with exactly one entry: the key of this starting         *)
(* configuration, with count 1.  (On the game screen the states with an    *)
(* empty history are the states resetGame has set.)                        *)
(***************************************************************************)
StartKey(firstPlayer) ==
  <<[i \in 1 .. (GRID_SIZE * GRID_SIZE) |-> "-"], "BNPR", "BNPR", firstPlayer, "-1,1">>

CpuCalled == fnCall.fn = "getCpuMove"

\* The legal moves of the player to move in the state of the call.
LegalOfCall == getLegalMoves(fnCall.state, fnCall.state.currentPlayer)

SameMove(a, b) ==
  /\ a.type = b.type /\ a.pieceType = b.pieceType
  /\ a.from = b.from /\ a.to = b.to

SetMax(S) == CHOOSE x \in S : \A y \in S : x >= y

SetMin(S) == CHOOSE x \in S : \A y \in S : x <= y

\* Minimax without pruning: the value of every successor is computed.
RECURSIVE Unpruned(_, _, _, _)
Unpruned(state, depth, isMaximizing, aiColor) ==
  IF \/ depth = 0
     \/ OwnedLines(state.board, "white") # {}
     \/ OwnedLines(state.board, "black") # {}
  THEN evaluateBoard(state.board, state.hands, aiColor)
  ELSE LET moves == getLegalMoves(state, state.currentPlayer)
           values == {Unpruned(simulateMove(state, moves[i]), depth - 1,
                               ~isMaximizing, aiColor) : i \in DOMAIN moves}
       IN  IF moves = <<>> THEN 0
           ELSE IF isMaximizing THEN SetMax(values) ELSE SetMin(values)

UnprunedValue(state, move) ==
  Unpruned(simulateMove(state, move), SearchDepth, FALSE, state.currentPlayer)

(***************************************************************************)
(* C14  For every state and every difficulty getCpuMove returns null iff   *)
(* getLegalMoves(state, currentPlayer) is empty, and otherwise a move      *)
(* whose type, piece kind, origin and destination are those of a member of *)
(* getLegalMoves(state, currentPlayer).                                    *)
(***************************************************************************)
C14_CpuMoveIsLegal ==
  CpuCalled =>
    LET legal == LegalOfCall
    IN  /\ fnResult = NoMove <=> legal = <<>>
        /\ fnResult # NoMove => \E i \in DOMAIN legal : SameMove(fnResult, legal[i])

\* Medium has returned null in a game nobody has won, for the player whose
\* hand is empty and whose only piece, a pawn, is blocked.
C14_Witness ==
  /\ CpuCalled
  /\ fnCall.state.difficulty = "medium"
  /\ fnCall.state.history = StuckOpening
  /\ fnCall.state.winner = "null"
  /\ fnCall.state.hands[fnCall.state.currentPlayer] = <<>>
  /\ fnResult = NoMove

(***************************************************************************)
(* C15  For every legal root move, the value Hard's search with alpha-beta *)
(* pruning computes for it equals the value of minimax without pruning, to *)
(* the same depth over the same simulated successors; so the move Hard     *)
(* chooses has the maximal unpruned value.                                 *)
(***************************************************************************)
C15_PruningKeepsValue ==
  /\ fnCall.fn = "minimax" =>
       fnResult = Unpruned(fnCall.state, fnCall.depth, fnCall.isMaximizing, fnCall.aiColor)
  /\ (CpuCalled /\ fnCall.state.difficulty = "hard" /\ fnResult # NoMove) =>
       LET legal == LegalOfCall
           chosen == UnprunedValue(fnCall.state, fnResult)
       IN  \A i \in DOMAIN legal : chosen >= UnprunedValue(fnCall.state, legal[i])

\* On the full board Hard's choice is not the first legal move, and the root
\* moves do not all have the same value.
C15_Witness ==
  /\ CpuCalled /\ fnCall.state.difficulty = "hard"
  /\ fnCall.state.history = FullBoardOpening
  /\ fnResult # NoMove
  /\ ~SameMove(fnResult, LegalOfCall[1])
  /\ HardValue(fnCall.state, fnResult) > HardValue(fnCall.state, LegalOfCall[1])

(***************************************************************************)
(* C16  (as claimed)  getCpuMove on Medium and on Hard returns the same    *)
(* move whenever it is called twice on the same state.                     *)
(***************************************************************************)
C16_SameMoveTwice ==
  (fnCall.fn = "getCpuMove twice" /\ fnCall.state.difficulty \in {"medium", "hard"}) =>
    fnResult[1] = fnResult[2]

\* Some legal move completes a line of the mover.
HasWinningMove(state, moves) ==
  \E m \in Range(moves) :
    OwnedLines(simulateMove(state, m).board, state.currentPlayer) # {}

\* Some line holds three pieces of the opponent and an empty square on which
\* a legal move lands.
HasBlockingMove(state, moves) ==
  \E L \in LineSets :
    /\ Cardinality({pos \in L : Cell(state, pos).color = Opponent(state.currentPlayer)}) = 3
    /\ \E pos \in L :
         /\ Cell(state, pos) = null
         /\ \E m \in Range(moves) : m.to = pos

\* Some legal relocation lands on a piece.
HasCapture(state, moves) ==
  \E m \in Range(moves) :
    m.type = "move" /\ Cell(state, m.to) # null

(***************************************************************************)
(* C16  (amended)  getCpuMove called twice on the same state returns the   *)
(* same move on Hard, and on Medium whenever the mover has a winning move, *)
(* a move onto the empty square of a line with three opposing pieces, or a *)
(* capture; otherwise it returns no move for both calls or legal moves for *)
(* both.                                                                   *)
(***************************************************************************)
C16_SameMoveTwiceUnlessRandom ==
  fnCall.fn = "getCpuMove twice" =>
    LET legal == LegalOfCall
    IN  /\ (\/ fnCall.state.difficulty = "hard"
            \/ /\ fnCall.state.difficulty = "medium"
               /\ \/ HasWinningMove(fnCall.state, legal)
                  \/ HasBlockingMove(fnCall.state, legal)
                  \/ HasCapture(fnCall.state, legal)) => fnResult[1] = fnResult[2]
        /\ \A n \in {1, 2} :
             \/ fnResult[n] = NoMove /\ legal = <<>>
             \/ \E i \in DOMAIN legal : fnResult[n] = legal[i]

\* Medium, with two captures to choose from and nothing to win or to block,
\* has twice returned the same capture.
C16_Witness ==
  /\ fnCall.fn = "getCpuMove twice" /\ fnCall.state.difficulty = "medium"
  /\ fnResult[1] = fnResult[2]
  /\ fnResult[1] # NoMove
  /\ fnResult[1].type = "move" /\ Cell(fnCall.state, fnResult[1].to) # null
  /\ LET legal == LegalOfCall
     IN  /\ ~HasWinningMove(fnCall.state, legal)
         /\ ~HasBlockingMove(fnCall.state, legal)
         /\ Cardinality({i \in DOMAIN legal :
                           /\ legal[i].type = "move"
                           /\ Cell(fnCall.state, legal[i].to) # null}) >= 2

(***************************************************************************)
(* C17  A call of getCpuMove, with every simulateMove and minimax step it  *)
(* performs, leaves the game state it was given unchanged (board, hands,   *)
(* pawn directions, player to move, history, positionCounts); the state    *)
(* changes only when a move is applied (or the game is reset).             *)
(***************************************************************************)
C17_Step ==
  (fnCall = NoCall /\ fnCall' # NoCall) =>
    /\ gameState'.board = gameState.board
    /\ gameState'.hands = gameState.hands
    /\ gameState'.pawnDirections = gameState.pawnDirections
    /\ gameState'.currentPlayer = gameState.currentPlayer
    /\ gameState'.history = gameState.history
    /\ gameState'.positionCounts = gameState.positionCounts
    /\ gameState' = gameState

C21_StartingHands ==
  (gameState.history = <<>> /\ gameState.positionCounts # <<>>) =>
    \A c \in Color, k \in PieceType : Count(gameState.hands[c], k) = 2

(***************************************************************************)
(* C25  A color's pawn direction changes only in a transition in which a   *)
(* pawn of that color arrives by Relocation on row 0 or row 3 (or the game *)
(* is reset); a Placement, of a pawn or of any other kind, on any row, and *)
(* a move of a non-pawn piece leave both pawn directions unchanged.        *)
(***************************************************************************)
C25_Step ==
  /\ \A c \in Color :
       gameState'.pawnDirections[c] # gameState.pawnDirections[c] =>
         \/ IsFreshGame(gameState')
         \/ /\ Applied
            /\ AppliedMove.type = "move"
            /\ Cell(gameState, AppliedMove.from).type = PAWN
            /\ Cell(gameState, AppliedMove.from).color = c
            /\ AppliedMove.to.r \in {0, GRID_SIZE - 1}
  /\ (/\ Applied
      /\ \/ AppliedMove.type = "place"
         \/ Cell(gameState, AppliedMove.from).type # PAWN) =>
       gameState'.pawnDirections = gameState.pawnDirections

C25_DirectionTurnsOnRelocationOnly == [][C25_Step]_vars

(***************************************************************************)
(* C30  After every applied move that does not win, the player to move is  *)
(* the mover's opponent, also when the move produces a Draw; after a       *)
(* winning move the player to move remains the winner; an apply that is a  *)
(* no-op does not change the player to move.                               *)
(***************************************************************************)
C30_TurnAfterMove ==
  fnCall.fn = "executeMove" =>
    LET mover == gameState.currentPlayer
    IN  IF fnResult.history = gameState.history
        THEN fnResult.currentPlayer = mover
        ELSE IF fnResult.winner = mover
        THEN fnResult.currentPlayer = mover
        ELSE /\ fnResult.winner \in {"null", "draw"}
             /\ fnResult.currentPlayer = Opponent(mover)

\* Black's rook has returned to (3,0) for the third time: the game is drawn
\* and it is White's turn.
C30_Witness ==
  /\ fnCall.fn = "executeMove"
  /\ gameState.history = DrawOpening
  /\ gameState.currentPlayer = "black"
  /\ fnResult.history = Append(DrawOpening, fnCall.move)
  /\ fnResult.winner = "draw"
  /\ fnResult.currentPlayer = "white"

(***************************************************************************)
(* C26  For every reachable state without a winner and every legal         *)
(* non-winning move, the successor the search builds with simulateMove     *)
(* agrees with the successor built by executeMove on the color and kind of *)
(* every square, on both hands, on the player to move and on both pawn     *)
(* directions.                                                             *)
(***************************************************************************)
C26_SimulationMatchesPlay ==
  (fnCall.fn = "simulateMove" /\ fnCall.state.winner = "null") =>
    LET played == executeMove(fnCall.state, fnCall.move)
    IN  played.winner # fnCall.state.currentPlayer =>
          /\ \A pos \in Position :
               /\ Cell(fnResult, pos).color = Cell(played, pos).color
               /\ Cell(fnResult, pos).type = Cell(played, pos).type
          /\ fnResult.hands = played.hands
          /\ fnResult.currentPlayer = played.currentPlayer
          /\ fnResult.pawnDirections = played.pawnDirections

(***************************************************************************)
(* C22  In every state reachable by legal play in which no winner or draw  *)
(* has been determined, the side to move has at least one legal move:      *)
(* getLegalMoves is non-empty (so getCpuMove, which returns null only for  *)
(* an empty getLegalMoves, does not return null during a game).            *)
(***************************************************************************)
C22_AlwaysALegalMove ==
  /\ (fnCall = NoCall /\ screen = "game" /\ gameState.winner = "null") =>
       getLegalMoves(gameState, gameState.currentPlayer) # <<>>
  /\ fnCall.fn = "getLegalMoves of position" => fnResult # <<>>

\* Black's rook in the corner is shut in by its bishop and its pawn, which
\* are blocked themselves: the knight has the only legal moves.
C22_Witness ==
  /\ fnCall.fn = "getLegalMoves of position"
  /\ fnCall.state.hands.black = <<>>
  /\ Cell(fnCall.state, Pos(0, 0)).type = ROOK
  /\ Cell(fnCall.state, Pos(0, 1)).type = BISHOP
  /\ Cell(fnCall.state, Pos(1, 0)).type = PAWN
  /\ fnResult # <<>>
  /\ \A i \in DOMAIN fnResult : fnResult[i].pieceType = KNIGHT

(***************************************************************************)
(* C27.  At most one run of the CPU opponent is in flight: no call of      *)
(* getCpuMove is started between the start of an earlier call and the      *)
(* application of its move, whatever happens to the game in between        *)
(* (moves, resets).                                                        *)
(***************************************************************************)
C27_OneSearchInFlight == Len(cpuRuns) <= 1

\* A run is pending for a game that has been reset since: the new game is
\* against the CPU with Black to move, and no second run has been started.
C27_Witness ==
  /\ Len(cpuRuns) = 1
  /\ isAiThinking
  /\ screen = "game"
  /\ cpuRuns[1].state.history = <<>>
  /\ cpuRuns[1].state.difficulty = "hard"
  /\ gameState.gameMode = "ai"
  /\ gameState.difficulty = "easy"
  /\ gameState.currentPlayer = "black"
  /\ gameState.winner = "null"
  /\ Len(gameState.history) = 1

(***************************************************************************)
(* C24.  The move of a run of the CPU is applied to the game state the run *)
(* was started on and to no other: a step that ends a run and changes the  *)
(* game finds the game as the run's call of getCpuMove was given it.       *)
(***************************************************************************)
C24_Step ==
  (Len(cpuRuns') < Len(cpuRuns) /\ gameState' # gameState) =>
    gameState = Head(cpuRuns).state

C24_MoveAppliedToItsOwnState == [][C24_Step]_vars

(***************************************************************************)
(* Vocabulary of the properties of online play                             *)
(***************************************************************************)
\* No move message is in flight between the two peers.
Quiet == net.toRemote = <<>> /\ net.toLocal = <<>>

\* Both peers are in the online match.
InMatch == remote.connected /\ gameState.gameMode = "online"

(***************************************************************************)
(* C23.  In online play, whenever no move message is in flight both peers' *)
(* states have the same canonical key and the same pieces, identities      *)
(* included, on the same squares.                                          *)
(***************************************************************************)
C23_PeersAgree ==
  (InMatch /\ Quiet) =>
    /\ KeyOf(gameState) = KeyOf(remote.gameState)
    /\ gameState.board = remote.gameState.board

(***************************************************************************)
(* Vocabulary of the properties of the clicks                              *)
(***************************************************************************)
\* A step in which a move was applied at the local peer that is neither the
\* CPU's (no run ended) nor the other peer's (nothing was received): the
\* move of a click.
LocalClickApplied ==
  /\ Applied
  /\ cpuRuns' = cpuRuns
  /\ net'.toLocal = net.toLocal

\* The same at the other peer.
RemoteClickApplied ==
  /\ remote.connected /\ remote'.connected
  /\ Len(remote'.gameState.history) = Len(remote.gameState.history) + 1
  /\ net'.toRemote = net.toRemote

RemoteAppliedMove == remote'.gameState.history[Len(remote'.gameState.history)]

\* `move` is one of getLegalMoves(state, state.currentPlayer): a placement
\* of a kind of the mover's hand on an empty square, or a relocation of a
\* piece of the mover to a square isValidMove accepts.
LegalIn(state, move) ==
  /\ \E m \in Range(getLegalMoves(state, state.currentPlayer)) : SameMove(m, move)
  /\ move.type = "place" =>
       /\ Count(state.hands[state.currentPlayer], move.pieceType) > 0
       /\ Cell(state, move.to) = null
  /\ move.type = "move" =>
       /\ Cell(state, move.from).color = state.currentPlayer
       /\ Cell(state, move.from).type = move.pieceType
       /\ isValidMove(state, Cell(state, move.from), move.from, move.to).valid

(***************************************************************************)
(* C28.  Every move applied because of a click is, for the state it is     *)
(* applied to, one of getLegalMoves(state, currentPlayer).                 *)
(***************************************************************************)
C28_Step ==
  /\ LocalClickApplied => LegalIn(gameState, AppliedMove)
  /\ RemoteClickApplied => LegalIn(remote.gameState, RemoteAppliedMove)

C28_ClickMovesAreLegal == [][C28_Step]_vars

\* A local game in which a pawn has just been moved onto the square of an
\* opposing piece.
C28_Witness ==
  /\ screen = "game"
  /\ gameState.gameMode = "local"
  /\ cpuRuns = <<>>
  /\ Len(gameState.history) = 3
  /\ gameState.history[3].type = "move"
  /\ gameState.history[3].pieceType = PAWN
  /\ Count(gameState.hands.black, PAWN) = 1
  /\ Cell(gameState, gameState.history[3].to).color = "white"
  /\ selectedPiece = NoSelection

(***************************************************************************)
(* C29.  While the CPU is to move (AI mode, Black to move), and in online  *)
(* mode while the other peer is to move, no click applies a move: in those *)
(* states the game changes only by the CPU's move, by a move received from *)
(* the peer, or by the start of a new game.                                *)
(***************************************************************************)
NotLocalTurn ==
  \/ gameState.gameMode = "ai" /\ gameState.currentPlayer = "black"
  \/ gameState.gameMode = "online" /\ gameState.currentPlayer # myColor

C29_Step ==
  /\ NotLocalTurn =>
       /\ ~LocalClickApplied
       /\ gameState' # gameState =>
            \/ Len(cpuRuns') < Len(cpuRuns)
            \/ Len(net'.toLocal) < Len(net.toLocal)
            \/ gameState'.history = <<>>
  /\ (remote.connected /\ remote.gameState.currentPlayer # remote.myColor) =>
       ~RemoteClickApplied

C29_NoClickOutOfTurn == [][C29_Step]_vars

\* White has made its first move against Hard and the CPU is thinking; no
\* selection has been made since.
C29_Witness ==
  /\ screen = "game"
  /\ gameState.gameMode = "ai"
  /\ gameState.difficulty = "hard"
  /\ gameState.currentPlayer = "black"
  /\ gameState.winner = "null"
  /\ Len(gameState.history) = 1
  /\ isAiThinking
  /\ Len(cpuRuns) = 1
  /\ cpuRuns[1].state = gameState
  /\ selectedPiece = NoSelection

(***************************************************************************)
(* C31.  In every state of legal play from a reset game each color has,    *)
(* of each of the four kinds, exactly one piece: on the board or as an     *)
(* entry of its own hand.  So no hand holds a kind twice and each color    *)
(* has exactly four pieces.                                                *)
(***************************************************************************)
\* The pieces of kind k that `color` has on the board and in its hand.
OwnKindTotal(state, color, k) ==
  Cardinality({pos \in Position :
                 Cell(state, pos).color = color /\ Cell(state, pos).type = k})
  + Count(state.hands[color], k)

NoLineOwned(state) ==
  state.winner \notin Color => \A color \in Color : OwnedLines(state.board, color) = {}

C32_Step ==
  /\ screen = "game" => NoLineOwned(gameState)
  /\ screen' = "game" => NoLineOwned(gameState')
  /\ Applied =>
       OwnedLines(gameState'.board, Opponent(gameState.currentPlayer))
         \subseteq OwnedLines(gameState.board, Opponent(gameState.currentPlayer))

C32_NoUnnoticedLine == [][C32_Step]_vars

\* White has passed its win by placing its pawn on (1,1): both colors hold
\* three squares of an outer row and the game goes on, Black to move.
C32_Witness ==
  /\ screen = "game"
  /\ gameState.history = BlackWinOpening
  /\ gameState.winner = "null"
  /\ gameState.currentPlayer = "black"
  /\ Cardinality({c \in Coord : Cell(gameState, Pos(0, c)).color = "white"}) = 3
  /\ Cardinality({c \in Coord : Cell(gameState, Pos(3, c)).color = "black"}) = 3

(***************************************************************************)
(* C33.  In every state of a game every count of positionCounts is between *)
(* 1 and 3, the counts sum to 1 plus the number of applied moves that did  *)
(* not win (a winning move adds no count), and some count is 3 if and only *)
(* if the winner is Draw.                                                  *)
(***************************************************************************)
RECURSIVE SumOver(_, _)
SumOver(counts, keys) ==
  IF keys = {} THEN 0
  ELSE LET k == CHOOSE x \in keys : TRUE
       IN  counts[k] + SumOver(counts, keys \ {k})

CountSum(state) == SumOver(state.positionCounts, DOMAIN state.positionCounts)

NonWinningMoves(state) ==
  Len(state.history) - (IF state.winner \in Color THEN 1 ELSE 0)

C33_PositionCounts ==
  screen = "game" =>
    /\ \A k \in DOMAIN gameState.positionCounts :
         gameState.positionCounts[k] \in 1 .. 3
    /\ CountSum(gameState) = 1 + NonWinningMoves(gameState)
    /\ (\E k \in DOMAIN gameState.positionCounts : gameState.positionCounts[k] = 3)
         <=> gameState.winner = "draw"

\* The rooks have shuttled until a configuration came up for the third time.
C33_Witness ==
  /\ screen = "game"
  /\ gameState.winner = "draw"
  /\ Len(gameState.history) = Len(DrawOpening) + 1
  /\ \E k \in DOMAIN gameState.positionCounts : gameState.positionCounts[k] = 3
  /\ \E k \in DOMAIN gameState.positionCounts : gameState.positionCounts[k] = 2
  /\ CountSum(gameState) = Len(gameState.history) + 1

(***************************************************************************)
(* C34.  In every state of legal play both pawn directions are +1 or -1,   *)
(* and the square ahead of every pawn on the board is inside the grid: a   *)
(* pawn on row 0 has an owner whose direction is +1, a pawn on the last    *)
(* row an owner whose direction is -1.                                     *)
(***************************************************************************)
PawnsOf(state, color) ==
  {pos \in Position : Cell(state, pos).type = PAWN /\ Cell(state, pos).color = color}

C34_PawnsFaceTheBoard ==
  screen = "game" =>
    \A color \in Color :
      /\ gameState.pawnDirections[color] \in {-1, 1}
      /\ \A pos \in PawnsOf(gameState, color) :
           /\ pos.r + gameState.pawnDirections[color] \in Coord
           /\ pos.r = 0 => gameState.pawnDirections[color] = 1
           /\ pos.r = GRID_SIZE - 1 => gameState.pawnDirections[color] = -1

\* White's pawn has taken on row 0 and stepped back to row 1; Black's second
\* pawn placement has walked to row 3: both colors now move the other way.
C34_Witness ==
  /\ screen = "game"
  /\ Len(gameState.history) = Len(PawnFlipOpening)
  /\ PawnsOf(gameState, "white") = {Pos(1, 1)}
  /\ PawnsOf(gameState, "black") = {Pos(GRID_SIZE - 1, 1)}
  /\ gameState.pawnDirections = [white |-> 1, black |-> -1]

(***************************************************************************)
(* C35.  Every game ends: as long as the players keep moving, a state with *)
(* a winner (White, Black or Draw) is eventually reached, because no       *)
(* configuration comes up more than three times.                           *)
(***************************************************************************)
C35_EveryGameEnds == <>(screen = "game" /\ gameState.winner # "null")

\* A game of shuttling rooks that has ended in a draw after more than twenty
\* moves, every configuration before the last having come up at most twice.
C35_Witness ==
  /\ screen = "game"
  /\ gameState.winner = "draw"
  /\ Len(gameState.history) > 20
  /\ \A i \in DOMAIN gameState.history :
       gameState.history[i].pieceType = ROOK
  /\ Cardinality({k \in DOMAIN gameState.positionCounts :
                    gameState.positionCounts[k] = 3}) = 1

(***************************************************************************)
(* C36.  On Medium, whenever some legal move of the mover leaves a board   *)
(* on which the mover owns a complete line, getCpuMove returns such a      *)
(* move, whatever there is to block or to capture.                         *)
(***************************************************************************)
\* Applying `move` to `state` leaves the mover with a complete line.
WinsBy(state, move) ==
  OwnedLines(executeMove(state, move).board, state.currentPlayer) # {}

C36_MediumTakesTheWin ==
  (CpuCalled /\ fnCall.state.difficulty = "medium" /\ fnCall.state.winner = "null") =>
    LET legal == LegalOfCall
    IN  (\E m \in Range(legal) : WinsBy(fnCall.state, m)) =>
          /\ \E m \in Range(legal) : SameMove(m, fnResult)
          /\ WinsBy(fnCall.state, fnResult)

\* White can complete row 0, could also block Black's row 3 on (3,3) or take
\* Black's bishop with its rook, and Medium has completed row 0.
C36_Witness ==
  /\ CpuCalled
  /\ fnCall.state.difficulty = "medium"
  /\ fnCall.state.history = WinOpening
  /\ fnResult # NoMove
  /\ fnResult.to = Pos(0, GRID_SIZE - 1)
  /\ HasBlockingMove(fnCall.state, LegalOfCall)
  /\ HasCapture(fnCall.state, LegalOfCall)

(***************************************************************************)
(* C37.  On Medium, when no legal move wins at once and some line holds    *)
(* three pieces of the opponent and an empty square on which a legal move  *)
(* of the mover lands, getCpuMove returns a move landing on the empty      *)
(* square of such a line, whatever there is to capture.                    *)
(***************************************************************************)
\* The empty squares of the lines that hold three pieces of the mover's
\* opponent.
ThreatSquares(state) ==
  {pos \in Position :
     /\ Cell(state, pos) = null
     /\ \E L \in LineSets :
          /\ pos \in L
          /\ \A q \in L \ {pos} : Cell(state, q).color = Opponent(state.currentPlayer)}

C37_MediumBlocks ==
  (CpuCalled /\ fnCall.state.difficulty = "medium" /\ fnCall.state.winner = "null") =>
    LET legal == LegalOfCall
        blockable == {pos \in ThreatSquares(fnCall.state) :
                        \E m \in Range(legal) : m.to = pos}
    IN  ((\A m \in Range(legal) : ~WinsBy(fnCall.state, m)) /\ blockable # {}) =>
          /\ \E m \in Range(legal) : SameMove(m, fnResult)
          /\ fnResult.to \in blockable

\* The mover cannot win at once, the opponent holds three squares of a line,
\* a capture is on offer, and Medium has moved onto the fourth square.
C37_Witness ==
  /\ CpuCalled
  /\ fnCall.state.difficulty = "medium"
  /\ fnCall.state.winner = "null"
  /\ fnResult # NoMove
  /\ fnResult.to \in ThreatSquares(fnCall.state)
  /\ HasCapture(fnCall.state, LegalOfCall)
  /\ \A m \in Range(LegalOfCall) : ~WinsBy(fnCall.state, m)

(***************************************************************************)
(* C38.  evaluateBoard returns exactly 100000 when the colour it scores    *)
(* for owns a complete line and exactly -100000 when the opponent does;    *)
(* on a board on which neither colour owns a line, with at most four       *)
(* pieces of a colour and hands of at most four, the score lies strictly   *)
(* between -100000 and 100000.                                             *)
(***************************************************************************)
EvaluateCalled == fnCall.fn = "evaluateBoard"

PiecesOf(board, color) ==
  Cardinality({pos \in Position : board[pos.r][pos.c].color = color})

C38_WinOutweighsHeuristics ==
  EvaluateCalled =>
    LET mine == OwnedLines(fnCall.board, fnCall.aiColor) # {}
        theirs == OwnedLines(fnCall.board, Opponent(fnCall.aiColor)) # {}
        small == \A color \in Color :
                   /\ PiecesOf(fnCall.board, color) <= GRID_SIZE
                   /\ Len(fnCall.hands[color]) <= GRID_SIZE
    IN  /\ mine => fnResult = 100000
        /\ theirs => fnResult = -100000
        /\ (~mine /\ ~theirs /\ small) => (fnResult > -100000 /\ fnResult < 100000)

\* Neither colour owns a line, the opponent holds three squares of an
\* otherwise empty line, and the score counts the threat.
C38_Witness ==
  /\ EvaluateCalled
  /\ OwnedLines(fnCall.board, "white") = {}
  /\ OwnedLines(fnCall.board, "black") = {}
  /\ \E n \in DOMAIN getLines :
       /\ CountOn(fnCall.board, getLines[n], Opponent(fnCall.aiColor)) = 3
       /\ CountOn(fnCall.board, getLines[n], fnCall.aiColor) = 0
  /\ fnResult <= -1000

\* The two decided cases of C38.
C38_WonNode == EvaluateCalled /\ fnResult = 100000

C38_LostNode == EvaluateCalled /\ fnResult = -100000
====
